---- MODULE Spec2Model ----
(***************************************************************************)
(* Degree planner: the Plan model (models.py) and the requirement          *)
(* validator (utils.py), then the parsers and the export.                  *)
(*                                                                         *)
(* A Python dict is an insertion-ordered mapping; Plan.selections is       *)
(* modelled as a sequence of entries [sem, ids] with distinct keys.  Dicts *)
(* are objects: `heap` maps a reference to the dict it holds, and a Plan   *)
(* holds the reference, so that two Plans built around one dict share it.  *)
(* The link between courses and requirements (parsers.py), the table       *)
(* parser (scripts/parsers.py) and the CSV export follow; they work on     *)
(* text, which is modelled character by character.                         *)
(* Credits are floats in the source; the model uses whole credits, for     *)
(* which float addition, subtraction and comparison are exact.             *)
(***************************************************************************)
EXTENDS Integers, Sequences, FiniteSets, TLC

VARIABLES
    heap,          \* reference -> selections dict (ordered: <<[sem, ids], ...>>)
    plans,         \* plan name -> Plan object [sel, notes, created_at, updated_at]
    clock,         \* what datetime.now() returns at this moment
    courses,       \* the course catalog, a list of Course
    requirements,  \* the requirement catalog, a list of Requirement
    env,           \* the files on disk and the optional packages installed
    last           \* the last call made and what it returned

vars == <<heap, plans, clock, courses, requirements, env, last>>

----------------------------------------------------------------------------
(* Bounds of the model *)

MaxSemLen == 3      \* longest course list add_course is driven to
MaxClock == 2       \* last clock reading

Semesters == {"Fall 2025", "Spring 2026"}
CatalogIds == {"BIBL101", "BIBL201"}     \* the ids a catalog may hold
CourseIds == CatalogIds \cup {"nonexistent"}
NoteTexts == {"", "Test plan"}
ReqIds == <<"bible", "theology">>
CreditValues == {3, 6}
MinCreditValues == {0, 6, 12}

None == "None"

----------------------------------------------------------------------------
(* Python list and dict primitives *)

Range(s) == {s[i] : i \in DOMAIN s}

\* semester in selections
HasKey(sel, sem) == \E i \in DOMAIN sel : sel[i].sem = sem

KeyIndex(sel, sem) == CHOOSE i \in DOMAIN sel : sel[i].sem = sem

\* selections[semester]
GetItem(sel, sem) == sel[KeyIndex(sel, sem)].ids

\* selections[semester] = ids: a new key goes last, an old key keeps its place
SetItem(sel, sem, ids) ==
    IF HasKey(sel, sem)
    THEN [sel EXCEPT ![KeyIndex(sel, sem)].ids = ids]
    ELSE Append(sel, [sem |-> sem, ids |-> ids])

\* list.remove(x): deletes the first occurrence of x
ListRemove(s, x) ==
    LET i == CHOOSE k \in DOMAIN s : s[k] = x /\ \A j \in 1..(k - 1) : s[j] # x
    IN  SubSeq(s, 1, i - 1) \o SubSeq(s, i + 1, Len(s))

----------------------------------------------------------------------------
(* datetime: a reading t of the clock is TicksPerSecond * seconds + fraction; *)
(* TicksPerSecond stands for the clock's 1000000 microseconds per second     *)

TicksPerSecond == 2

\* datetime.isoformat(): the fraction is printed only when it is not zero
isoformat(t) ==
    [sec |-> t \div TicksPerSecond,
     frac |-> IF t % TicksPerSecond = 0 THEN <<>> ELSE <<t % TicksPerSecond>>]

\* datetime.fromisoformat(): a missing fraction reads as zero
fromisoformat(s) ==
    s.sec * TicksPerSecond + (IF s.frac = <<>> THEN 0 ELSE s.frac[1])

----------------------------------------------------------------------------
(* models.py: Plan *)

\* Plan(): both timestamps come from their own datetime.now() call
NewPlan(ref, t1, t2) ==
    [sel |-> ref, notes |-> "", created_at |-> t1, updated_at |-> t2]

\* Plan.to_dict: the dict holds the selections object itself, not a copy
to_dict(self) ==
    [selections |-> self.sel,
     notes |-> self.notes,
     created_at |-> isoformat(self.created_at),
     updated_at |-> isoformat(self.updated_at)]

\* the notes key not read: the dataclass default stands
from_dict_default_notes(data) ==
    [sel |-> data.selections,
     notes |-> "",
     created_at |-> fromisoformat(data.created_at),
     updated_at |-> fromisoformat(data.updated_at)]

\* Plan.from_dict on a dict that has all four keys (the .get defaults unused)
from_dict(data) ==
    [sel |-> data.selections,
     notes |-> data.notes,
     created_at |-> fromisoformat(data.created_at),
     updated_at |-> fromisoformat(data.updated_at)]

\* the membership test left out: the id is appended whatever the list holds
add_course_unchecked(self, sel, semester, course_id, now) ==
    LET sel1 == IF ~HasKey(sel, semester) THEN SetItem(sel, semester, <<>>) ELSE sel
    IN  [self |-> [self EXCEPT !.updated_at = now],
         selections |-> SetItem(sel1, semester, Append(GetItem(sel1, semester), course_id)),
         raised |-> None]

\* updated_at written outside the if: every call stamps the plan
add_course_stamping(self, sel, semester, course_id, now) ==
    LET sel1 == IF ~HasKey(sel, semester) THEN SetItem(sel, semester, <<>>) ELSE sel
        ids  == GetItem(sel1, semester)
    IN  [self |-> [self EXCEPT !.updated_at = now],
         selections |-> IF course_id \notin Range(ids)
                        THEN SetItem(sel1, semester, Append(ids, course_id))
                        ELSE sel1,
         raised |-> None]

\* insert(0, course_id) in place of append(course_id)
add_course_in_front(self, sel, semester, course_id, now) ==
    LET sel1 == IF ~HasKey(sel, semester) THEN SetItem(sel, semester, <<>>) ELSE sel
        ids  == GetItem(sel1, semester)
    IN  IF course_id \notin Range(ids)
        THEN [self |-> [self EXCEPT !.updated_at = now],
              selections |-> SetItem(sel1, semester, <<course_id>> \o ids),
              raised |-> None]
        ELSE [self |-> self, selections |-> sel1, raised |-> None]

\* Plan.add_course: self after the call, the contents of its selections
\* dict after the call, and the exception raised (None: it returns)
add_course(self, sel, semester, course_id, now) ==
    LET sel1 == IF ~HasKey(sel, semester) THEN SetItem(sel, semester, <<>>) ELSE sel
        ids  == GetItem(sel1, semester)
    IN  IF course_id \notin Range(ids)
        THEN [self |-> [self EXCEPT !.updated_at = now],
              selections |-> SetItem(sel1, semester, Append(ids, course_id)),
              raised |-> None]
        ELSE [self |-> self, selections |-> sel1, raised |-> None]

\* updated_at written outside the if: every call stamps the plan
remove_course_stamping(self, sel, semester, course_id, now) ==
    [self |-> [self EXCEPT !.updated_at = now],
     selections |-> IF HasKey(sel, semester) /\ course_id \in Range(GetItem(sel, semester))
                    THEN SetItem(sel, semester, ListRemove(GetItem(sel, semester), course_id))
                    ELSE sel,
     raised |-> None]

\* Plan.remove_course
remove_course(self, sel, semester, course_id, now) ==
    IF HasKey(sel, semester) /\ course_id \in Range(GetItem(sel, semester))
    THEN [self |-> [self EXCEPT !.updated_at = now],
          selections |-> SetItem(sel, semester, ListRemove(GetItem(sel, semester), course_id)),
          raised |-> None]
    ELSE [self |-> self, selections |-> sel, raised |-> None]

\* What a dict made by to_dict shows when read: the selections by content
Shown(data, h) == [data EXCEPT !.selections = h[data.selections]]

----------------------------------------------------------------------------
(* utils.py: the requirement validator *)

\* {course.id: course for course in courses}: a repeated id keeps the last course
course_lookup(cs) ==
    [id \in {cs[i].id : i \in DOMAIN cs} |->
        cs[CHOOSE i \in DOMAIN cs :
              cs[i].id = id /\ \A j \in (i + 1)..Len(cs) : cs[j].id # id]]

\* the test of the satisfies set left out
SatisfyingAnyTag(lookup, course_id, req_id) == course_id \in DOMAIN lookup

\* "if course_id in course_lookup: ... if requirement.id in course.satisfies"
Satisfying(lookup, course_id, req_id) ==
    course_id \in DOMAIN lookup /\ req_id \in lookup[course_id].satisfies

\* the inner loop "for course_id in course_ids", from position i on
RECURSIVE ScanIds(_, _, _, _, _)
ScanIds(course_ids, i, lookup, req_id, acc) ==
    IF i > Len(course_ids) THEN acc
    ELSE LET course_id == course_ids[i]
         IN  ScanIds(course_ids, i + 1, lookup, req_id,
                 IF Satisfying(lookup, course_id, req_id)
                 THEN [selected_courses |-> Append(acc.selected_courses, lookup[course_id]),
                       total_credits |-> acc.total_credits + lookup[course_id].credits]
                 ELSE acc)

\* the outer loop "for semester, course_ids in plan.selections.items()"
RECURSIVE ScanSelections(_, _, _, _, _)
ScanSelections(sel, k, lookup, req_id, acc) ==
    IF k > Len(sel) THEN acc
    ELSE ScanSelections(sel, k + 1, lookup, req_id,
             ScanIds(sel[k].ids, 1, lookup, req_id, acc))

Max(a, b) == IF a >= b THEN a ELSE b

\* the comparison made strict
IsMetStrict(total_credits, min_credits) == total_credits > min_credits

\* is_met = total_credits >= requirement.min_credits
IsMet(total_credits, min_credits) == total_credits >= min_credits

\* the difference without the max(0, ...)
DeficitUnclamped(total_credits, min_credits) == min_credits - total_credits

\* deficit = max(0, requirement.min_credits - total_credits)
Deficit(total_credits, min_credits) == Max(0, min_credits - total_credits)

\* the body of "for requirement in requirements": one entry of the result
ValidateOne(sel, lookup, requirement) ==
    LET acc == ScanSelections(sel, 1, lookup, requirement.id,
                   [selected_courses |-> <<>>, total_credits |-> 0])
        is_met == IsMet(acc.total_credits, requirement.min_credits)
        deficit == Deficit(acc.total_credits, requirement.min_credits)
    IN  [requirement |-> requirement,
         selected_courses |-> acc.selected_courses,
         total_credits |-> acc.total_credits,
         min_credits |-> requirement.min_credits,
         is_met |-> is_met,
         deficit |-> deficit,
         status |-> IF is_met THEN <<"Met">> ELSE <<"Need", deficit>>]

\* validate_requirements: a dict keyed by requirement id; a later requirement
\* of the same id overwrites the entry of an earlier one
validate_requirements(sel, cs, reqs) ==
    LET lookup == course_lookup(cs)
    IN  [rid \in {reqs[i].id : i \in DOMAIN reqs} |->
            ValidateOne(sel, lookup,
                reqs[CHOOSE i \in DOMAIN reqs :
                        reqs[i].id = rid /\ \A j \in (i + 1)..Len(reqs) : reqs[j].id # rid])]

RECURSIVE GCD(_, _)
GCD(a, b) == IF b = 0 THEN a ELSE GCD(b, a % b)

\* a number as a fraction in lowest terms (an int n is n/1)
Frac(n, d) == LET g == GCD(n, d) IN [num |-> n \div g, den |-> d \div g]

\* floor division a // b in place of a / b
FloorDiv(a, b) == Frac(a \div b, 1)

\* Python's a / b (true division), b # 0
TrueDiv(a, b) == Frac(a, b)

\* x * n for a fraction x
MulInt(x, n) == Frac(x.num * n, x.den)

\* get_requirement_progress
get_requirement_progress(sel, cs, reqs) ==
    LET validation == validate_requirements(sel, cs, reqs)
        total_requirements == Len(reqs)
        met_requirements == Cardinality({rid \in DOMAIN validation : validation[rid].is_met})
    IN  [total_requirements |-> total_requirements,
         met_requirements |-> met_requirements,
         progress_percentage |->
             IF total_requirements > 0
             THEN MulInt(TrueDiv(met_requirements, total_requirements), 100)
             ELSE Frac(0, 1),
         validation_results |-> validation]

----------------------------------------------------------------------------
(* The catalogs the validator is run on *)

Course(id, credits, satisfies) ==
    [id |-> id, credits |-> credits, satisfies |-> satisfies]

Requirement(id, min_credits, satisfied_by) ==
    [id |-> id, min_credits |-> min_credits, satisfied_by |-> satisfied_by]

TagSets == {{}, {ReqIds[1]}, {ReqIds[1], ReqIds[2]}}

CoursePool == {Course(id, cr, tags) : id \in CatalogIds, cr \in CreditValues, tags \in TagSets}

FirstCourses == {c \in CoursePool : c.id = "BIBL101" /\ c.credits = 6}

\* catalogs of zero, one and two courses; two courses may carry the same id,
\* and a catalog may lack an id that a plan selects
CourseLists ==
    {<<>>}
    \cup {<<a>> : a \in FirstCourses}
    \cup {<<a, b>> : a \in FirstCourses, b \in CoursePool}

\* the ids of the courses that carry the tag rid
TaggedWith(cs, rid) == {cs[i].id : i \in {j \in DOMAIN cs : rid \in cs[j].satisfies}}

\* requirement lists of zero, one and two requirements, ids distinct
RequirementLists(cs) ==
    {<<>>}
    \cup {<<Requirement(ReqIds[1], m, TaggedWith(cs, ReqIds[1]))>> : m \in MinCreditValues}
    \cup {<<Requirement(ReqIds[1], m1, TaggedWith(cs, ReqIds[1])),
            Requirement(ReqIds[2], m2, TaggedWith(cs, ReqIds[2]))>> :
              m1 \in MinCreditValues, m2 \in {6}}

\* a catalog after test_get_requirement_progress: one course per requirement
SampleCourses ==
    <<Course("BIBL101", 12, {"bible"}), Course("BIBL201", 6, {"theology"})>>

SampleRequirements ==
    <<Requirement("bible", 12, {"BIBL101"}), Requirement("theology", 9, {"BIBL201"})>>

----------------------------------------------------------------------------
(* State after construction *)

\* plan = Plan(): an empty selections dict, two readings of the clock
InitPlan(t2) ==
    /\ heap = (1 :> <<>>)
    /\ plans = ("p" :> NewPlan(1, 0, t2))
    /\ clock = t2
    /\ env = [files |-> <<>>, striprtf |-> FALSE]
    /\ last = [op |-> "Plan"]

Init ==
    /\ \E t2 \in {0, 1} : InitPlan(t2)
    /\ courses = SampleCourses
    /\ requirements = SampleRequirements

InitValidate ==
    /\ InitPlan(0)
    /\ courses \in CourseLists
    /\ requirements \in RequirementLists(courses)

----------------------------------------------------------------------------
(* Operations *)

Live == DOMAIN plans

SelectionsOf(pl) == heap[plans[pl].sel]

\* time passes
Tick ==
    /\ clock < MaxClock
    /\ clock' = clock + 1
    /\ last' = [op |-> "tick"]
    /\ UNCHANGED <<heap, plans, courses, requirements, env>>

\* plan.add_course(semester, course_id)
AddCourse(pl, semester, course_id) ==
    /\ pl \in Live
    /\ IF HasKey(SelectionsOf(pl), semester)
       THEN LET ids == GetItem(SelectionsOf(pl), semester)
            IN  Len(ids) < MaxSemLen \/ course_id \in Range(ids)
       ELSE TRUE
    /\ LET r == add_course(plans[pl], SelectionsOf(pl), semester, course_id, clock)
       IN  /\ heap' = [heap EXCEPT ![plans[pl].sel] = r.selections]
           /\ plans' = [plans EXCEPT ![pl] = r.self]
           /\ last' = [op |-> "add_course", plan |-> pl, semester |-> semester,
                       course_id |-> course_id, raised |-> r.raised]
    /\ UNCHANGED <<clock, courses, requirements, env>>

\* plan.remove_course(semester, course_id)
RemoveCourse(pl, semester, course_id) ==
    /\ pl \in Live
    /\ LET r == remove_course(plans[pl], SelectionsOf(pl), semester, course_id, clock)
       IN  /\ heap' = [heap EXCEPT ![plans[pl].sel] = r.selections]
           /\ plans' = [plans EXCEPT ![pl] = r.self]
           /\ last' = [op |-> "remove_course", plan |-> pl, semester |-> semester,
                       course_id |-> course_id, raised |-> r.raised]
    /\ UNCHANGED <<clock, courses, requirements, env>>

\* plan.notes = notes (main.py, the notes text area)
SetNotes(pl, notes) ==
    /\ pl \in Live
    /\ notes # plans[pl].notes
    /\ plans' = [plans EXCEPT ![pl].notes = notes]
    /\ last' = [op |-> "set_notes", plan |-> pl]
    /\ UNCHANGED <<heap, clock, courses, requirements, env>>

\* Plan.from_dict(plan.to_dict()).to_dict(), next to plan.to_dict()
RoundTrip(pl) ==
    /\ pl \in Live
    /\ LET first == to_dict(plans[pl])
           second == to_dict(from_dict(first))
       IN  last' = [op |-> "round_trip", plan |-> pl,
                    first |-> Shown(first, heap), second |-> Shown(second, heap)]
    /\ UNCHANGED <<heap, plans, clock, courses, requirements, env>>

\* a validator that keeps its running deficit in requirement.min_credits
ValidateRequirementsConsuming(pl) ==
    /\ pl \in Live
    /\ LET ret == validate_requirements(SelectionsOf(pl), courses, requirements)
       IN  /\ last' = [op |-> "validate_requirements", plan |-> pl, ret |-> ret]
           /\ requirements' = [i \in DOMAIN requirements |->
                  [requirements[i] EXCEPT !.min_credits = ret[requirements[i].id].deficit]]
    /\ UNCHANGED <<heap, plans, clock, courses, env>>

\* validate_requirements(plan, courses, requirements)
ValidateRequirements(pl) ==
    /\ pl \in Live
    /\ last' = [op |-> "validate_requirements", plan |-> pl,
                ret |-> validate_requirements(SelectionsOf(pl), courses, requirements)]
    /\ UNCHANGED <<heap, plans, clock, courses, requirements, env>>

\* get_requirement_progress(plan, courses, requirements)
GetRequirementProgress(pl) ==
    /\ pl \in Live
    /\ last' = [op |-> "get_requirement_progress", plan |-> pl,
                ret |-> get_requirement_progress(SelectionsOf(pl), courses, requirements)]
    /\ UNCHANGED <<heap, plans, clock, courses, requirements, env>>

Next ==
    \/ Tick
    \/ \E s \in Semesters, c \in CourseIds : AddCourse("p", s, c)
    \/ \E s \in Semesters, c \in CourseIds : RemoveCourse("p", s, c)
    \/ \E n \in NoteTexts : SetNotes("p", n)
    \/ RoundTrip("p")

Spec == Init /\ [][Next]_vars

NextValidate ==
    \/ \E s \in Semesters, c \in CatalogIds : AddCourse("p", s, c)
    \/ \E s \in Semesters, c \in CatalogIds : RemoveCourse("p", s, c)
    \/ ValidateRequirements("p")
    \/ GetRequirementProgress("p")

SpecValidate == InitValidate /\ [][NextValidate]_vars

----------------------------------------------------------------------------
(* What the claims speak of, written from the plan and the catalogs alone *)

\* every course-id occurrence of the plan, semester by semester, in plan order
RECURSIVE Occurrences(_)
Occurrences(sel) ==
    IF sel = <<>> THEN <<>> ELSE Head(sel).ids \o Occurrences(Tail(sel))

InCatalog(id) == \E i \in DOMAIN courses : courses[i].id = id

\* the catalog's course of an id (the last one, should the id be repeated)
CatalogCourse(id) ==
    courses[CHOOSE i \in DOMAIN courses :
               courses[i].id = id /\ \A j \in DOMAIN courses : courses[j].id = id => j <= i]

Counts(id, rid) == InCatalog(id) /\ rid \in CatalogCourse(id).satisfies

\* the occurrences that count towards requirement rid, as courses
CountedCourses(sel, rid) ==
    LET ids == SelectSeq(Occurrences(sel), LAMBDA id : Counts(id, rid))
    IN  [i \in DOMAIN ids |-> CatalogCourse(ids[i])]

RECURSIVE SumCredits(_)
SumCredits(cs) == IF cs = <<>> THEN 0 ELSE Head(cs).credits + SumCredits(Tail(cs))

Validated == last.op = "validate_requirements"

----------------------------------------------------------------------------
(* C1: for every requirement of the list, validate_requirements returns     *)
(* deficit = max(0, min_credits - total_credits) and                        *)
(* is_met = (total_credits >= min_credits), and the deficit is never        *)
(* negative.                                                                *)
C1_DeficitAndIsMet ==
    Validated =>
        \A i \in DOMAIN requirements :
            LET r == requirements[i]
                v == last.ret[r.id]
                short == r.min_credits - v.total_credits
            IN  /\ v.min_credits = r.min_credits
                /\ v.deficit = (IF short > 0 THEN short ELSE 0)
                /\ v.is_met = (v.total_credits >= r.min_credits)
                /\ v.deficit >= 0

\* one validation with a requirement short of credits and another exceeded
C1_Witness ==
    /\ Validated
    /\ \E rid \in DOMAIN last.ret : last.ret[rid].deficit > 0 /\ ~last.ret[rid].is_met
    /\ \E rid \in DOMAIN last.ret :
          /\ last.ret[rid].total_credits > last.ret[rid].min_credits
          /\ last.ret[rid].deficit = 0

(* C2: for every requirement r, selected_courses is the list, and           *)
(* total_credits the sum of credits, of exactly the course-id occurrences   *)
(* of the plan (every semester, once per occurrence, in plan order) whose   *)
(* id is in the catalog and whose course has r.id in its satisfies set;     *)
(* ids not in the catalog are ignored.  Two satisfying 6-credit courses in  *)
(* different semesters against a minimum of 12 give total 12, is_met,       *)
(* deficit 0 and two selected courses.                                      *)
TwoSixesScenario ==
    /\ Len(requirements) >= 1
    /\ requirements[1].min_credits = 12
    /\ Len(SelectionsOf("p")) = 2
    /\ \A k \in 1..2 : Len(SelectionsOf("p")[k].ids) = 1
    /\ SelectionsOf("p")[1].ids # SelectionsOf("p")[2].ids
    /\ \A id \in Range(Occurrences(SelectionsOf("p"))) :
          Counts(id, requirements[1].id) /\ CatalogCourse(id).credits = 6

C2_SelectedAndTotal ==
    Validated =>
        /\ \A i \in DOMAIN requirements :
              LET v == last.ret[requirements[i].id]
                  counted == CountedCourses(SelectionsOf("p"), requirements[i].id)
              IN  /\ v.selected_courses = counted
                  /\ v.total_credits = SumCredits(counted)
        /\ TwoSixesScenario =>
              LET v == last.ret[requirements[1].id]
              IN  /\ v.total_credits = 12
                  /\ v.is_met
                  /\ v.deficit = 0
                  /\ Len(v.selected_courses) = 2

\* the scenario validated, in a plan that selects nothing else
C2_Witness == Validated /\ TwoSixesScenario

(* C3: get_requirement_progress returns total_requirements = the length of  *)
(* the requirement list, met_requirements = the number of its requirements  *)
(* whose validation is met, progress_percentage = met / total * 100, the    *)
(* number 0 for an empty list, and exactly 50 for 1 met out of 2.           *)
Progressed == last.op = "get_requirement_progress"

C3_Progress ==
    Progressed =>
        LET g == last.ret
            met == {i \in DOMAIN requirements :
                       /\ g.validation_results[requirements[i].id].is_met
                       /\ SumCredits(CountedCourses(SelectionsOf("p"), requirements[i].id))
                              >= requirements[i].min_credits}
        IN  /\ g.total_requirements = Len(requirements)
            /\ g.met_requirements = Cardinality(met)
            /\ g.progress_percentage.den > 0
            /\ g.progress_percentage.num * g.total_requirements
                   = g.met_requirements * 100 * g.progress_percentage.den
            /\ g.total_requirements = 0 => g.progress_percentage = [num |-> 0, den |-> 1]
            /\ (g.total_requirements = 2 /\ g.met_requirements = 1)
                   => g.progress_percentage = [num |-> 50, den |-> 1]

\* one requirement met out of two
C3_Witness ==
    /\ Progressed
    /\ last.ret.total_requirements = 2
    /\ last.ret.met_requirements = 1
    /\ Occurrences(SelectionsOf("p")) # <<>>

(* C10, as claimed: for a single requirement of any non-negative            *)
(* min_credits and a plan in which no selected course satisfies it,         *)
(* validation yields total_credits = 0, deficit = min_credits and           *)
(* is_met = False.                                                          *)
NothingCounts ==
    /\ Len(requirements) = 1
    /\ requirements[1].min_credits >= 0
    /\ \A id \in Range(Occurrences(SelectionsOf("p"))) : ~Counts(id, requirements[1].id)

C10_AsClaimed ==
    (Validated /\ NothingCounts) =>
        LET v == last.ret[requirements[1].id]
        IN  /\ v.total_credits = 0
            /\ v.deficit = requirements[1].min_credits
            /\ v.is_met = FALSE

(* C10, amended: in that case total_credits = 0 and deficit = min_credits,  *)
(* and is_met is False exactly when min_credits is positive; a requirement  *)
(* of min_credits 0 is met by an empty selection.                           *)
C10_NothingCounts ==
    (Validated /\ NothingCounts) =>
        LET v == last.ret[requirements[1].id]
        IN  /\ v.total_credits = 0
            /\ v.deficit = requirements[1].min_credits
            /\ v.is_met = (requirements[1].min_credits = 0)

\* a plan that selects courses, none of them counting, against a minimum of 12
C10_Witness ==
    /\ Validated
    /\ NothingCounts
    /\ requirements[1].min_credits = 12
    /\ Len(Occurrences(SelectionsOf("p"))) >= 2
    /\ \E id \in Range(Occurrences(SelectionsOf("p"))) : InCatalog(id)

----------------------------------------------------------------------------
(* Claims about Plan, under Spec *)

P == plans["p"]
Sel == SelectionsOf("p")

\* the id of the call that makes this step is in the semester's list before it
PresentBefore ==
    /\ HasKey(Sel, last'.semester)
    /\ last'.course_id \in Range(GetItem(Sel, last'.semester))

\* the semester's list before the call that makes this step ([] when unknown)
ListBefore == IF HasKey(Sel, last'.semester) THEN GetItem(Sel, last'.semester) ELSE <<>>

NoDuplicates(ids) == \A i, j \in DOMAIN ids : ids[i] = ids[j] => i = j

(* C4: in every Plan state reached from an empty Plan by add_course and     *)
(* remove_course calls, no course id appears twice within one semester's    *)
(* sequence.                                                                *)
C4_NoDuplicates ==
    \A k \in DOMAIN Sel : NoDuplicates(Sel[k].ids)

\* an add_course of an id the semester already holds has just returned (the
\* clock has moved on since the plan was last stamped), the list being full
C4_Witness ==
    /\ last.op = "add_course"
    /\ P.updated_at < clock
    /\ Len(GetItem(Sel, last.semester)) = 3

(* C5: add_course(sem, id) with id already in selections[sem] is a no-op:   *)
(* selections, notes, created_at and updated_at are unchanged (and nothing  *)
(* is raised), so the same add_course call made a second time changes       *)
(* nothing.                                                                 *)
C5_AddPresentIsNoOp ==
    [][/\ (last'.op = "add_course" /\ PresentBefore) =>
            /\ heap' = heap
            /\ plans' = plans
            /\ last'.raised = None
       /\ (last.op = "add_course" /\ last' = last) => (heap' = heap /\ plans' = plans)
      ]_vars

\* such an add_course has just returned on a plan that carries notes
C5_Witness ==
    /\ last.op = "add_course"
    /\ P.updated_at < clock
    /\ P.notes # ""
    /\ P.created_at < P.updated_at

(* C6, as claimed: remove_course(sem, id) changes updated_at if and only if *)
(* id was present in selections[sem]; when the semester is unknown or the   *)
(* id is absent it raises no error and leaves selections, notes and both    *)
(* timestamps unchanged.                                                    *)
C6_AsClaimed ==
    [][last'.op = "remove_course" =>
          /\ (plans'["p"].updated_at # P.updated_at) <=> PresentBefore
          /\ ~PresentBefore => (heap' = heap /\ plans' = plans /\ last'.raised = None)
      ]_vars

(* C6, amended: remove_course stamps updated_at with the current time if    *)
(* and only if id was present in selections[sem], so updated_at changes     *)
(* only if the id was present, and it does not change even then when the    *)
(* clock still reads the value it holds; when the semester is unknown or    *)
(* the id is absent nothing is raised and selections, notes and both        *)
(* timestamps are unchanged.                                                *)
C6_RemoveStamps ==
    [][last'.op = "remove_course" =>
          /\ last'.raised = None
          /\ PresentBefore =>
                /\ plans'["p"] = [P EXCEPT !.updated_at = clock]
                /\ heap' # heap
          /\ (plans'["p"].updated_at # P.updated_at) => PresentBefore
          /\ ~PresentBefore => (heap' = heap /\ plans' = plans)
      ]_vars

\* a remove_course has emptied a semester's list at a later clock reading
\* than the one the plan was created at
C6_Witness ==
    /\ last.op = "remove_course"
    /\ HasKey(Sel, last.semester)
    /\ GetItem(Sel, last.semester) = <<>>
    /\ P.updated_at = clock
    /\ P.created_at < P.updated_at

(* C7: a semester's selection is an ordered sequence: add_course of an id   *)
(* not yet in the semester appends it at the end, remove_course of a        *)
(* present id deletes it and keeps the relative order of the others, and    *)
(* neither changes the sequence of any other semester.                      *)
OthersKept ==
    \A s \in Semesters \ {last'.semester} :
        /\ HasKey(heap'[P.sel], s) <=> HasKey(Sel, s)
        /\ HasKey(Sel, s) => GetItem(heap'[P.sel], s) = GetItem(Sel, s)

C7_OrderedSequence ==
    [][/\ (last'.op = "add_course" /\ ~PresentBefore) =>
            /\ GetItem(heap'[P.sel], last'.semester) = Append(ListBefore, last'.course_id)
            /\ OthersKept
       /\ (last'.op = "remove_course" /\ PresentBefore) =>
            /\ GetItem(heap'[P.sel], last'.semester)
                   = SelectSeq(ListBefore, LAMBDA x : x # last'.course_id)
            /\ Len(GetItem(heap'[P.sel], last'.semester)) = Len(ListBefore) - 1
            /\ OthersKept
      ]_vars

\* a remove_course has emptied one semester's list and the other semester
\* holds three ids
C7_Witness ==
    /\ last.op = "remove_course"
    /\ HasKey(Sel, last.semester)
    /\ GetItem(Sel, last.semester) = <<>>
    /\ \E s \in Semesters \ {last.semester} : HasKey(Sel, s) /\ Len(GetItem(Sel, s)) = 3

(* C8: Plan.from_dict(p.to_dict()).to_dict() equals p.to_dict() in          *)
(* selections and notes and, nothing being mutated in between, in           *)
(* created_at and updated_at.                                               *)
C8_RoundTrip ==
    last.op = "round_trip" =>
        /\ last.second.selections = last.first.selections
        /\ last.second.notes = last.first.notes
        /\ last.second.created_at = last.first.created_at
        /\ last.second.updated_at = last.first.updated_at
        /\ last.first.selections = Sel
        /\ last.first.notes = P.notes

\* the round trip of a plan with selections, notes and a timestamp that
\* prints with a fraction
C8_Witness ==
    /\ last.op = "round_trip"
    /\ last.first.notes # ""
    /\ Len(last.first.selections) = 2
    /\ last.first.updated_at.frac # <<>>
    /\ last.first.created_at.frac = <<>>

----------------------------------------------------------------------------
(* C9: validate_requirements and get_requirement_progress have no side      *)
(* effects: the plan (selections, notes, timestamps), every course with its *)
(* satisfies set and every requirement with its satisfied_by set are        *)
(* unchanged, and a second call on the same inputs returns the same result. *)
C9_NoSideEffects ==
    [][last'.op \in {"validate_requirements", "get_requirement_progress"} =>
          /\ heap' = heap
          /\ plans' = plans
          /\ courses' = courses
          /\ requirements' = requirements
          /\ last.op = last'.op => last'.ret = last.ret
      ]_vars

\* a validation that selected courses for a requirement that lists them
C9_Witness ==
    /\ Validated
    /\ \E i \in DOMAIN requirements :
          /\ requirements[i].satisfied_by # {}
          /\ last.ret[requirements[i].id].selected_courses # <<>>
          /\ last.ret[requirements[i].id].deficit > 0

----------------------------------------------------------------------------
(* Python str: a sequence of one-character strings *)

UpperCase ==
    <<"A", "B", "C", "D", "E", "F", "G", "H", "I", "J", "K", "L", "M",
      "N", "O", "P", "Q", "R", "S", "T", "U", "V", "W", "X", "Y", "Z">>

LowerCase ==
    <<"a", "b", "c", "d", "e", "f", "g", "h", "i", "j", "k", "l", "m",
      "n", "o", "p", "q", "r", "s", "t", "u", "v", "w", "x", "y", "z">>

Digits == <<"0", "1", "2", "3", "4", "5", "6", "7", "8", "9">>

\* the characters matched by \s and removed by strip()
IsSpace(c) == c \in {" ", "\t", "\n"}

IndexIn(letters, c) == CHOOSE i \in DOMAIN letters : letters[i] = c

\* s.upper()
upper(s) ==
    [i \in DOMAIN s |-> IF s[i] \in Range(LowerCase)
                        THEN UpperCase[IndexIn(LowerCase, s[i])] ELSE s[i]]

\* s.lower()
lower(s) ==
    [i \in DOMAIN s |-> IF s[i] \in Range(UpperCase)
                        THEN LowerCase[IndexIn(UpperCase, s[i])] ELSE s[i]]

\* sub in s
contains(sub, s) ==
    \E i \in 0..(Len(s) - Len(sub)) : SubSeq(s, i + 1, i + Len(sub)) = sub

\* s.lstrip(), s.rstrip(), s.strip()
RECURSIVE lstrip(_)
lstrip(s) == IF s # <<>> /\ IsSpace(Head(s)) THEN lstrip(Tail(s)) ELSE s

RECURSIVE rstrip(_)
rstrip(s) ==
    IF s # <<>> /\ IsSpace(s[Len(s)]) THEN rstrip(SubSeq(s, 1, Len(s) - 1)) ELSE s

strip(s) == rstrip(lstrip(s))

\* the position of the first whitespace character of s, Len(s) + 1 if none
FirstSpace(s) ==
    IF \E i \in DOMAIN s : IsSpace(s[i])
    THEN CHOOSE i \in DOMAIN s : IsSpace(s[i]) /\ \A j \in 1..(i - 1) : ~IsSpace(s[j])
    ELSE Len(s) + 1

\* re.split(r"\s", s): one cut at every whitespace character
RECURSIVE re_split_space(_)
re_split_space(s) ==
    LET k == FirstSpace(s)
    IN  IF k > Len(s) THEN <<s>>
        ELSE <<SubSeq(s, 1, k - 1)>> \o re_split_space(SubSeq(s, k + 1, Len(s)))

\* s.split(): the maximal runs of non-whitespace characters
RECURSIVE split(_)
split(s) ==
    LET t == lstrip(s)
        k == FirstSpace(t)
    IN  IF t = <<>> THEN <<>>
        ELSE <<SubSeq(t, 1, k - 1)>> \o split(SubSeq(t, k, Len(t)))

\* sep.join(parts)
RECURSIVE join(_, _)
join(sep, parts) ==
    IF parts = <<>> THEN <<>>
    ELSE IF Len(parts) = 1 THEN parts[1]
    ELSE parts[1] \o sep \o join(sep, Tail(parts))

----------------------------------------------------------------------------
(* Linking parsed courses to requirements *)

\* Course.id as parse_schedule_pdf builds it: code, semester, first word of faculty
course_id(code, semester, faculty) ==
    code \o <<"_">> \o semester \o <<"_">> \o split(faculty)[1]

\* a Course as parse_schedule_pdf returns it, nothing linked yet
ScheduledCourse(code, title, faculty) ==
    [id |-> course_id(code, <<"F", "a", "l", "l", " ", "2", "0", "2", "5">>, faculty), code |-> code, title |-> title,
     satisfies |-> {}]

\* the keyword table of link_courses_to_requirements, in its order
mapping ==
    <<[req_id |-> "bible", keywords |-> <<<<"B", "I", "B", "L">>, <<"B", "I", "B", "L", "E">>, <<"S", "C", "R", "I", "P", "T", "U", "R", "E">>>>],
      [req_id |-> "historical", keywords |-> <<<<"H", "I", "S", "T">>, <<"H", "I", "S", "T", "O", "R", "Y">>, <<"C", "H", "U", "R", "C", "H">>>>],
      [req_id |-> "interreligious", keywords |-> <<<<"I", "N", "T", "E", "R">>, <<"R", "E", "L", "I", "G", "I", "O", "N">>, <<"D", "I", "V", "E", "R", "S", "I", "T", "Y">>>>],
      [req_id |-> "practical", keywords |-> <<<<"P", "R", "A", "C">>, <<"M", "I", "N", "I", "S", "T", "R", "Y">>, <<"P", "A", "S", "T", "O", "R", "A", "L">>>>],
      [req_id |-> "theology_ethics", keywords |-> <<<<"T", "H", "E", "O">>, <<"E", "T", "H", "I", "C", "S">>, <<"M", "O", "R", "A", "L">>>>],
      [req_id |-> "field_ed", keywords |-> <<<<"F", "I", "E", "L", "D">>, <<"I", "N", "T", "E", "R", "N">>, <<"P", "R", "A", "C", "T", "I", "C", "U", "M">>>>],
      [req_id |-> "mssw_core", keywords |-> <<<<"M", "S", "S", "W">>, <<"S", "O", "C", "I", "A", "L">>>>],
      [req_id |-> "integrative_seminar", keywords |-> <<<<"S", "E", "M", "I", "N", "A", "R">>, <<"I", "N", "T", "E", "G", "R", "A", "T", "I", "V", "E">>>>],
      [req_id |-> "social_work_practice", keywords |-> <<<<"P", "R", "A", "C", "T", "I", "C", "E">>, <<"C", "L", "I", "N", "I", "C", "A", "L">>>>],
      [req_id |-> "social_work_research", keywords |-> <<<<"R", "E", "S", "E", "A", "R", "C", "H">>, <<"M", "E", "T", "H", "O", "D", "S">>>>],
      [req_id |-> "social_work_policy", keywords |-> <<<<"P", "O", "L", "I", "C", "Y">>, <<"A", "D", "V", "O", "C", "A", "C", "Y">>>>]>>

\* f"{course.code} {course.title}".upper()
course_text(course) == upper(course.code \o <<" ">> \o course.title)

\* any(keyword in course_text for keyword in keywords)
AnyKeyword(course, keywords) ==
    \E k \in DOMAIN keywords : contains(keywords[k], course_text(course))

\* the requirement ids whose keywords the course matches
MatchedIds(course) ==
    {mapping[m].req_id : m \in {n \in DOMAIN mapping : AnyKeyword(course, mapping[n].keywords)}}

\* the requirement the inner loop stops at: the first one of the list with that id
FirstWithId(reqs, j) == \A k \in 1..(j - 1) : reqs[k].id # reqs[j].id

\* link_courses_to_requirements(courses, requirements): both lists after the call
link_courses_to_requirements(cs, reqs) ==
    [courses |->
        [i \in DOMAIN cs |->
            [cs[i] EXCEPT !.satisfies = @ \cup MatchedIds(cs[i])]],
     requirements |->
        [j \in DOMAIN reqs |->
            [reqs[j] EXCEPT !.satisfied_by =
                IF FirstWithId(reqs, j)
                THEN @ \cup {cs[i].id : i \in {n \in DOMAIN cs : reqs[j].id \in MatchedIds(cs[n])}}
                ELSE @]]]

\* create_sample_data(): the courses with their preset tags, then the linking loops
create_sample_data ==
    LET reqs == <<Requirement("bible", 12, {}), Requirement("historical", 9, {}),
                  Requirement("interreligious", 6, {}), Requirement("practical", 12, {}),
                  Requirement("theology_ethics", 12, {}), Requirement("field_ed", 6, {}),
                  Requirement("electives", 15, {}), Requirement("mssw_core", 30, {}),
                  Requirement("integrative_seminar", 3, {}),
                  Requirement("social_work_practice", 12, {}),
                  Requirement("social_work_research", 6, {}),
                  Requirement("social_work_policy", 6, {})>>
        cs == <<[id |-> <<"B", "I", "B", "L", "1", "0", "1", "_", "F", "a", "l", "l", "2", "0", "2", "5", "_", "S", "m", "i", "t", "h">>, code |-> <<"B", "I", "B", "L", " ", "1", "0", "1">>,
                 title |-> <<"I", "n", "t", "r", "o", "d", "u", "c", "t", "i", "o", "n", " ", "t", "o", " ", "B", "i", "b", "l", "i", "c", "a", "l", " ", "S", "t", "u", "d", "i", "e", "s">>, satisfies |-> {"bible"}],
                [id |-> <<"H", "I", "S", "T", "2", "0", "1", "_", "F", "a", "l", "l", "2", "0", "2", "5", "_", "J", "o", "n", "e", "s">>, code |-> <<"H", "I", "S", "T", " ", "2", "0", "1">>,
                 title |-> <<"C", "h", "u", "r", "c", "h", " ", "H", "i", "s", "t", "o", "r", "y">>, satisfies |-> {"historical"}],
                [id |-> <<"T", "H", "E", "O", "3", "0", "1", "_", "F", "a", "l", "l", "2", "0", "2", "5", "_", "B", "r", "o", "w", "n">>, code |-> <<"T", "H", "E", "O", " ", "3", "0", "1">>,
                 title |-> <<"S", "y", "s", "t", "e", "m", "a", "t", "i", "c", " ", "T", "h", "e", "o", "l", "o", "g", "y">>, satisfies |-> {"theology_ethics"}],
                [id |-> <<"M", "S", "S", "W", "4", "0", "1", "_", "F", "a", "l", "l", "2", "0", "2", "5", "_", "W", "i", "l", "s", "o", "n">>, code |-> <<"M", "S", "S", "W", " ", "4", "0", "1">>,
                 title |-> <<"S", "o", "c", "i", "a", "l", " ", "W", "o", "r", "k", " ", "P", "r", "a", "c", "t", "i", "c", "e", " ", "I">>,
                 satisfies |-> {"mssw_core", "social_work_practice"}],
                [id |-> <<"P", "R", "A", "C", "5", "0", "1", "_", "F", "a", "l", "l", "2", "0", "2", "5", "_", "D", "a", "v", "i", "s">>, code |-> <<"P", "R", "A", "C", " ", "5", "0", "1">>,
                 title |-> <<"P", "a", "s", "t", "o", "r", "a", "l", " ", "C", "a", "r", "e">>, satisfies |-> {"practical"}]>>
    IN  [courses |-> cs,
         requirements |->
            [j \in DOMAIN reqs |->
                [reqs[j] EXCEPT !.satisfied_by =
                    @ \cup {cs[i].id : i \in {n \in DOMAIN cs : reqs[j].id \in cs[n].satisfies}}]]]

\* what parse_schedule_pdf can return for one semester: two sections of TH 301
\* under one faculty name, a Bible course and a course no keyword matches
SchedulePool ==
    {ScheduledCourse(<<"T", "H", " ", "3", "0", "1">>, <<"C", "h", "u", "r", "c", "h", " ", "H", "i", "s", "t", "o", "r", "y", ":">>, <<"S", "m", "i", "t", "h", ",", " ", "J", "o", "h", "n">>),
     ScheduledCourse(<<"T", "H", " ", "3", "0", "1">>, <<"E", "t", "h", "i", "c", "s", " ", "S", "e", "m", "i", "n", "a", "r", ":">>, <<"S", "m", "i", "t", "h", ",", " ", "J", "o", "h", "n">>),
     ScheduledCourse(<<"B", "I", "B", "L", " ", "1", "0", "1">>, <<"I", "n", "t", "r", "o", " ", "t", "o", " ", "t", "h", "e", " ", "B", "i", "b", "l", "e">>, <<"D", "r", ".", " ", "J", "o", "n", "e", "s">>),
     ScheduledCourse(<<"S", "W", " ", "5", "0", "0">>, <<"S", "t", "a", "t", "i", "s", "t", "i", "c", "s">>, <<"D", "r", ".", " ", "L", "e", "e">>)}

ScheduleLists ==
    {<<>>} \cup {<<a>> : a \in SchedulePool} \cup {<<a, b>> : a, b \in SchedulePool}

LinkReqIds == {"bible", "historical", "theology_ethics", "electives"}

\* what the requirement parsers return: distinct ids, nothing linked yet
LinkRequirementLists ==
    {<<>>}
    \cup {<<Requirement(a, 6, {})>> : a \in LinkReqIds}
    \cup {<<Requirement(p[1], 6, {}), Requirement(p[2], 6, {})>> :
            p \in {q \in LinkReqIds \X LinkReqIds : q[1] # q[2]}}

InitLink ==
    /\ InitPlan(0)
    /\ courses \in ScheduleLists
    /\ requirements \in LinkRequirementLists

\* link_courses_to_requirements(courses, requirements) (parse_all_data)
LinkCoursesToRequirements ==
    /\ LET r == link_courses_to_requirements(courses, requirements)
       IN  /\ courses' = r.courses
           /\ requirements' = r.requirements
    /\ last' = [op |-> "link_courses_to_requirements"]
    /\ UNCHANGED <<heap, plans, clock, env>>

\* courses, requirements = create_sample_data() (main.py, the fallback)
CreateSampleData ==
    /\ last.op # "create_sample_data"
    /\ courses' = create_sample_data.courses
    /\ requirements' = create_sample_data.requirements
    /\ last' = [op |-> "create_sample_data"]
    /\ UNCHANGED <<heap, plans, clock, env>>

NextLink ==
    \/ LinkCoursesToRequirements
    \/ CreateSampleData

SpecLink == InitLink /\ [][NextLink]_vars

\* every course and requirement of the two lists agree on the link between them
Consistent(cs, reqs) ==
    \A i \in DOMAIN cs, j \in DOMAIN reqs :
        cs[i].id \in reqs[j].satisfied_by <=> reqs[j].id \in cs[i].satisfies

NothingLinked ==
    /\ \A i \in DOMAIN courses : courses[i].satisfies = {}
    /\ \A j \in DOMAIN requirements : requirements[j].satisfied_by = {}

\* C11: after link_courses_to_requirements on lists whose satisfies and
\* satisfied_by sets start empty, and after create_sample_data, a course's id
\* is in a requirement's satisfied_by exactly when the requirement's id is in
\* the course's satisfies, for every course and requirement of the lists.
C11_AsClaimed ==
    [][/\ (last'.op = "link_courses_to_requirements" /\ NothingLinked)
            => Consistent(courses', requirements')
       /\ last'.op = "create_sample_data" => Consistent(courses', requirements')]_vars

----------------------------------------------------------------------------
(* Files and paths (scripts/parsers.py) *)

DATA_DIR == <<".", "/", "_", "c", "o", "n", "t", "e", "x", "t">>

\* what the readers find in a file: whether it can be read at all, the pages
\* of a PDF (the tables and the text pdfplumber extracts from each), the
\* plain text striprtf makes of an RTF, and the course dicts the line pattern
\* of the backend parser finds in its text, and the requirement dicts its
\* section patterns find there
File(readable, pages, plain, found, sections) ==
    [readable |-> readable, pages |-> pages, plain |-> plain, found |-> found,
     sections |-> sections]

\* the credits _extract_credits reads in a line: None, or an int
NoCredits == <<>>

Credits(n) == <<n>>

Page(tables, text) == [tables |-> tables, text |-> text]

\* a table cell or a page text that pdfplumber returns as None
NoneText == <<None>>

\* the directories of the file system
Directories == {DATA_DIR, DATA_DIR \o <<"/">>, <<".", "/", "o", "t", "h", "e", "r">>, <<"/", "e", "t", "c">>}

\* s.endswith(suffix)
endswith(s, suffix) ==
    Len(s) >= Len(suffix) /\ SubSeq(s, Len(s) - Len(suffix) + 1, Len(s)) = suffix

\* os.path.basename(path): what follows the last slash
os_path_basename(path) ==
    LET slashes == {i \in DOMAIN path : path[i] = "/"}
        k == IF slashes = {} THEN 0 ELSE CHOOSE i \in slashes : \A j \in slashes : j <= i
    IN  SubSeq(path, k + 1, Len(path))

\* os.path.join(a, b): an absolute b replaces a
os_path_join(a, b) ==
    IF b # <<>> /\ b[1] = "/" THEN b
    ELSE IF a = <<>> \/ a[Len(a)] = "/" THEN a \o b
    ELSE a \o <<"/">> \o b

\* joining with the basename left out
JoinWholePath(path) == os_path_join(DATA_DIR, path)

\* path = os.path.join(DATA_DIR, os.path.basename(path))
ResolvedPath(path) == os_path_join(DATA_DIR, os_path_basename(path))

\* os.path.exists(path)
os_path_exists(e, path) == path \in DOMAIN e.files \/ path \in Directories

\* os.listdir(directory): the names of the files directly inside it
os_listdir(e, directory) ==
    {os_path_basename(p) : p \in {q \in DOMAIN e.files :
                                    q = os_path_join(directory, os_path_basename(q))}}

----------------------------------------------------------------------------
(* Row extraction *)

RECURSIVE Flatten(_)
Flatten(ss) == IF ss = <<>> THEN <<>> ELSE Head(ss) \o Flatten(Tail(ss))

\* if r and any(cell is not None and str(cell).strip() for cell in r)
KeepRow(r) == \E i \in DOMAIN r : r[i] # NoneText /\ strip(r[i]) # <<>>

\* [str(cell).strip() if cell is not None else "" for cell in r]
StrippedRow(r) == [i \in DOMAIN r |-> IF r[i] = NoneText THEN <<>> ELSE strip(r[i])]

\* _table_rows_from_pdf(path): the kept rows of all tables of all pages; a
\* file pdfplumber cannot open gives no rows
_table_rows_from_pdf(f) ==
    IF ~f.readable THEN <<>>
    ELSE LET all == Flatten([p \in DOMAIN f.pages |-> Flatten(f.pages[p].tables)])
             kept == SelectSeq(all, KeepRow)
         IN  [i \in DOMAIN kept |-> StrippedRow(kept[i])]

\* "\n".join(page.extract_text() or "" for page in pdf.pages)
PdfText(f) ==
    join(<<"\n">>, [p \in DOMAIN f.pages |->
                      IF f.pages[p].text = NoneText THEN <<>> ELSE f.pages[p].text])

\* text.split("\n"): the pieces between the newlines, empty ones included
RECURSIVE split_newline(_)
split_newline(text) ==
    IF \E i \in DOMAIN text : text[i] = "\n"
    THEN LET k == CHOOSE i \in DOMAIN text :
                      text[i] = "\n" /\ \A j \in 1..(i - 1) : text[j] # "\n"
         IN  <<SubSeq(text, 1, k - 1)>> \o split_newline(SubSeq(text, k + 1, Len(text)))
    ELSE <<text>>

\* the start of the first run of two or more whitespace characters, 0 if none
GapStart(s) ==
    LET starts == {i \in 1..(Len(s) - 1) : IsSpace(s[i]) /\ IsSpace(s[i + 1])}
    IN  IF starts = {} THEN 0 ELSE CHOOSE i \in starts : \A j \in starts : i <= j

\* the end of the whitespace run that starts at i
GapEnd(s, i) ==
    CHOOSE k \in i..Len(s) :
        /\ \A j \in i..k : IsSpace(s[j])
        /\ k = Len(s) \/ ~IsSpace(s[k + 1])

\* re.split(r"\s{2,}", line)
RECURSIVE re_split_gap(_)
re_split_gap(s) ==
    LET i == GapStart(s)
    IN  IF i = 0 THEN <<s>>
        ELSE <<SubSeq(s, 1, i - 1)>> \o re_split_gap(SubSeq(s, GapEnd(s, i) + 1, Len(s)))

NonBlank(part) == strip(part) # <<>>

\* the parts of a line with the blank ones kept
LinePartsKeepingBlank(line) ==
    LET parts == re_split_gap(rstrip(line))
    IN  [i \in DOMAIN parts |-> strip(parts[i])]

\* parts = [p.strip() for p in re.split(r"\s{2,}", line.rstrip()) if p.strip()]
LineParts(line) ==
    LET parts == SelectSeq(re_split_gap(rstrip(line)), NonBlank)
    IN  [i \in DOMAIN parts |-> strip(parts[i])]

NonEmpty(s) == s # <<>>

\* _fallback_rows_from_text(text): the lines that have parts
_fallback_rows_from_text(text) ==
    LET lines == split_newline(text)
    IN  SelectSeq([i \in DOMAIN lines |-> LineParts(lines[i])], NonEmpty)

\* the rows of a call, the exception it raised and the files it opened
Rows(rows, opened) == [raised |-> None, rows |-> rows, opened |-> opened]

RowsRaise(exc, opened) == [raised |-> exc, rows |-> <<>>, opened |-> opened]

\* the extension test with the case kept
SameCaseEndswith(path, suffix) == endswith(path, suffix)

\* path.lower().endswith(suffix)
HasExtension(path, suffix) == endswith(lower(path), suffix)

\* extract_rows returning the table rows of a PDF even when there are none
ExtractTablesOnly(e, path) ==
    IF ~os_path_exists(e, path) THEN RowsRaise("FileNotFoundError", {})
    ELSE IF HasExtension(path, <<".", "p", "d", "f">>)
    THEN IF path \notin DOMAIN e.files \/ ~e.files[path].readable
         THEN RowsRaise("Exception", {path})
         ELSE Rows(_table_rows_from_pdf(e.files[path]), {path})
    ELSE IF HasExtension(path, <<".", "r", "t", "f">>)
    THEN IF ~e.striprtf THEN RowsRaise("RuntimeError", {})
         ELSE IF path \notin DOMAIN e.files \/ ~e.files[path].readable
         THEN RowsRaise("Exception", {path})
         ELSE Rows(_fallback_rows_from_text(e.files[path].plain), {path})
    ELSE RowsRaise("ValueError", {})

\* extract_rows once the path is resolved
ExtractResolved(e, path) ==
    IF ~os_path_exists(e, path) THEN RowsRaise("FileNotFoundError", {})
    ELSE IF HasExtension(path, <<".", "p", "d", "f">>)
    THEN IF path \notin DOMAIN e.files \/ ~e.files[path].readable
         THEN RowsRaise("Exception", {path})
         ELSE LET rows == _table_rows_from_pdf(e.files[path])
              IN  IF rows # <<>> THEN Rows(rows, {path})
                  ELSE Rows(_fallback_rows_from_text(PdfText(e.files[path])), {path})
    ELSE IF HasExtension(path, <<".", "r", "t", "f">>)
    THEN IF ~e.striprtf THEN RowsRaise("RuntimeError", {})
         ELSE IF path \notin DOMAIN e.files \/ ~e.files[path].readable
         THEN RowsRaise("Exception", {path})
         ELSE Rows(_fallback_rows_from_text(e.files[path].plain), {path})
    ELSE RowsRaise("ValueError", {})

\* extract_rows(path)
extract_rows(e, path) == ExtractResolved(e, ResolvedPath(path))

----------------------------------------------------------------------------
(* Header detection and column mapping *)

\* "course" in row_join and "code" in row_join
IsHeaderRow(row) ==
    LET row_join == join(<<" ">>, [i \in DOMAIN row |-> lower(row[i])])
    IN  contains(<<"c", "o", "u", "r", "s", "e">>, row_join) /\ contains(<<"c", "o", "d", "e">>, row_join)

\* the search for the header taking the last row that has both words
_find_last_header_row(rows) ==
    LET found == {i \in DOMAIN rows : IsHeaderRow(rows[i])}
    IN  IF found = {} THEN [raised |-> "RuntimeError", idx |-> 0]
        ELSE [raised |-> None, idx |-> (CHOOSE i \in found : \A j \in found : j <= i) - 1]

\* _find_header_row(rows): the index of the first header row, counted from 0
_find_header_row(rows) ==
    LET found == {i \in DOMAIN rows : IsHeaderRow(rows[i])}
    IN  IF found = {} THEN [raised |-> "RuntimeError", idx |-> 0]
        ELSE [raised |-> None, idx |-> (CHOOSE i \in found : \A j \in found : i <= j) - 1]

\* the keyword table, in its order
_HEADER_KEYWORDS ==
    <<[key |-> <<"c", "o", "u", "r", "s", "e", " ", "c", "o", "d", "e">>, canonical |-> "Course Code"],
      [key |-> <<"c", "o", "u", "r", "s", "e", " ", "t", "i", "t", "l", "e">>, canonical |-> "Course Title"],
      [key |-> <<"c", "r", "e", "d", "i", "t", "s">>, canonical |-> "Credits"],
      [key |-> <<"i", "n", "s", "t", "r", "u", "c", "t", "o", "r">>, canonical |-> "Instructor"],
      [key |-> <<"d", "a", "y", "s">>, canonical |-> "Days/Times"],
      [key |-> <<"d", "a", "y", "s", "/", "t", "i", "m", "e", "s">>, canonical |-> "Days/Times"],
      [key |-> <<"d", "e", "s", "c", "r", "i", "p", "t", "i", "o", "n">>, canonical |-> "Description"]>>

\* the canonical field of a header cell: its first keyword in table order
CellField(cell) ==
    LET cell_clean == lower(strip(cell))
        hits == {k \in DOMAIN _HEADER_KEYWORDS : contains(_HEADER_KEYWORDS[k].key, cell_clean)}
    IN  IF hits = {} THEN None
        ELSE _HEADER_KEYWORDS[CHOOSE k \in hits : \A j \in hits : k <= j].canonical

\* mapping[key] = value on a dict
DictSet(d, key, value) ==
    [k \in DOMAIN d \cup {key} |-> IF k = key THEN value ELSE d[k]]

\* the loop of _build_col_index over the header cells, idx counted from 0
RECURSIVE MapCells(_, _, _)
MapCells(header_row, idx, col_index) ==
    IF idx >= Len(header_row) THEN col_index
    ELSE LET canonical == CellField(header_row[idx + 1])
         IN  MapCells(header_row, idx + 1,
                      IF canonical = None THEN col_index
                      ELSE DictSet(col_index, canonical, idx))

\* the mandatory columns with Credits left out
RequiredWithoutCredits == {"Course Code", "Course Title"}

RequiredColumns == {"Course Code", "Course Title", "Credits"}

\* _build_col_index(header_row)
_build_col_index(header_row) ==
    LET col_index == MapCells(header_row, 0, <<>>)
    IN  IF RequiredColumns \subseteq DOMAIN col_index
        THEN [raised |-> None, mapping |-> col_index]
        ELSE [raised |-> "RuntimeError", mapping |-> col_index]

----------------------------------------------------------------------------
(* Rows to courses *)

IsDigit(c) == c \in Range(Digits)

\* the number a string of digits writes
RECURSIVE DigitsValue(_)
DigitsValue(ds) ==
    IF ds = <<>> THEN 0
    ELSE 10 * DigitsValue(SubSeq(ds, 1, Len(ds) - 1)) + (IndexIn(Digits, ds[Len(ds)]) - 1)

RECURSIVE Pow10(_)
Pow10(n) == IF n = 0 THEN 1 ELSE 10 * Pow10(n - 1)

\* a float, kept exact as a fraction
Float(n, d) == Frac(n, d)

\* float(token) for a token without whitespace: an optional sign, digits and
\* at most one point, at least one digit; anything else raises ValueError
\* (exponents, inf, nan and digit underscores are not modelled)
float(token) ==
    LET negative == token # <<>> /\ token[1] = "-"
        body == IF token # <<>> /\ token[1] \in {"+", "-"} THEN Tail(token) ELSE token
        points == {i \in DOMAIN body : body[i] = "."}
        whole == IF points = {} THEN body
                 ELSE SubSeq(body, 1, (CHOOSE i \in points : TRUE) - 1)
        fraction == IF points = {} THEN <<>>
                    ELSE SubSeq(body, (CHOOSE i \in points : TRUE) + 1, Len(body))
        valid == /\ Cardinality(points) <= 1
                 /\ \A i \in DOMAIN body : IsDigit(body[i]) \/ body[i] = "."
                 /\ \E i \in DOMAIN body : IsDigit(body[i])
        n == DigitsValue(whole \o fraction)
    IN  IF valid
        THEN [raised |-> None,
              value |-> Float(IF negative THEN 0 - n ELSE n, Pow10(Len(fraction)))]
        ELSE [raised |-> "ValueError", value |-> Float(0, 1)]

\* _get(col): the cell of the column, "" if the column is not mapped or the
\* row is too short
_get(row, col_index, col) ==
    IF col \in DOMAIN col_index /\ col_index[col] < Len(row)
    THEN row[col_index[col] + 1] ELSE <<>>

NoCourse ==
    [code |-> <<>>, title |-> <<>>, credits |-> Float(0, 1), professor |-> <<>>,
     schedule |-> <<>>, description |-> <<>>]

\* row_to_course(row, col_index): made is FALSE where the source returns None
row_to_course(row, col_index) ==
    LET code_raw == _get(row, col_index, "Course Code")
        cell == _get(row, col_index, "Credits")
        credits == IF cell # <<>> THEN float(re_split_space(cell)[1])
                   ELSE [raised |-> None, value |-> Float(0, 1)]
    IN  IF code_raw = <<>> THEN [raised |-> None, made |-> FALSE, course |-> NoCourse]
        ELSE IF credits.raised # None
        THEN [raised |-> credits.raised, made |-> FALSE, course |-> NoCourse]
        ELSE [raised |-> None, made |-> TRUE,
              course |-> [code |-> strip(code_raw),
                          title |-> strip(_get(row, col_index, "Course Title")),
                          credits |-> credits.value,
                          professor |-> strip(_get(row, col_index, "Instructor")),
                          schedule |-> strip(_get(row, col_index, "Days/Times")),
                          description |-> strip(_get(row, col_index, "Description"))]]

\* what a row with a blank code cell adds to the description, were the
\* Description cell of a row too short to have one taken as ""
ContinuationCellOnly(raw_row, col_index) ==
    IF "Description" \in DOMAIN col_index
    THEN <<" ">> \o _get(raw_row, col_index, "Description")
    ELSE <<" ">> \o join(<<" ">>, raw_row)

\* what a row with a blank code cell adds to prev_course["description"]
Continuation(raw_row, col_index) ==
    IF "Description" \in DOMAIN col_index /\ col_index["Description"] < Len(raw_row)
    THEN <<" ">> \o raw_row[col_index["Description"] + 1]
    ELSE <<" ">> \o join(<<" ">>, raw_row)

\* the loop keeping one course of a code: a row whose code an earlier course
\* has is passed over
RECURSIVE AssembleDeduplicated(_, _, _, _)
AssembleDeduplicated(rows, k, col_index, acc) ==
    IF k > Len(rows) \/ acc.raised # None THEN acc
    ELSE LET raw_row == rows[k]
             course_code == IF col_index["Course Code"] < Len(raw_row)
                            THEN raw_row[col_index["Course Code"] + 1] ELSE <<>>
             n == Len(acc.courses)
             made == row_to_course(raw_row, col_index)
         IN  AssembleDeduplicated(rows, k + 1, col_index,
                 IF raw_row = <<>> THEN acc
                 ELSE IF strip(course_code) = <<>>
                 THEN IF n = 0 THEN acc
                      ELSE [acc EXCEPT !.courses[n].description =
                                           @ \o Continuation(raw_row, col_index)]
                 ELSE IF made.raised # None THEN [acc EXCEPT !.raised = made.raised]
                 ELSE IF \E i \in 1..n : acc.courses[i].code = strip(course_code) THEN acc
                 ELSE IF made.made THEN [acc EXCEPT !.courses = Append(@, made.course)]
                 ELSE acc)

\* the loop of parse_file over the rows after the header; prev_course is the
\* last course of the list
RECURSIVE Assemble(_, _, _, _)
Assemble(rows, k, col_index, acc) ==
    IF k > Len(rows) \/ acc.raised # None THEN acc
    ELSE LET raw_row == rows[k]
             course_code == IF col_index["Course Code"] < Len(raw_row)
                            THEN raw_row[col_index["Course Code"] + 1] ELSE <<>>
             n == Len(acc.courses)
             made == row_to_course(raw_row, col_index)
         IN  Assemble(rows, k + 1, col_index,
                 IF raw_row = <<>> THEN acc
                 ELSE IF strip(course_code) = <<>>
                 THEN IF n = 0 THEN acc
                      ELSE [acc EXCEPT !.courses[n].description =
                                           @ \o Continuation(raw_row, col_index)]
                 ELSE IF made.raised # None THEN [acc EXCEPT !.raised = made.raised]
                 ELSE IF made.made THEN [acc EXCEPT !.courses = Append(@, made.course)]
                 ELSE acc)

----------------------------------------------------------------------------
(* Requirement categories and totals *)

REQ_MAP ==
    <<[prefix |-> <<"B", "X">>, fields |-> <<"Bible/Sacred Texts">>],
      [prefix |-> <<"B", "I", "B", "L">>, fields |-> <<"Bible/Sacred Texts">>],
      [prefix |-> <<"H", "B">>, fields |-> <<"Bible/Sacred Texts">>],
      [prefix |-> <<"N", "T">>, fields |-> <<"Bible/Sacred Texts">>],
      [prefix |-> <<"C", "H">>, fields |-> <<"Historical Studies">>],
      [prefix |-> <<"H", "S">>, fields |-> <<"Historical Studies">>],
      [prefix |-> <<"P", "R">>, fields |-> <<"Practical Theology">>],
      [prefix |-> <<"P", "T">>, fields |-> <<"Practical Theology">>],
      [prefix |-> <<"T", "H">>, fields |-> <<"Theology & Ethics">>],
      [prefix |-> <<"E", "T", "H">>, fields |-> <<"Theology & Ethics">>],
      [prefix |-> <<"I", "E">>, fields |-> <<"Interreligious Engagement">>],
      [prefix |-> <<"S", "W">>, fields |-> <<"MSSW Core Courses">>]>>

\* REQ_MAP.get(prefix, [])
REQ_MAP_get(prefix) ==
    IF \E i \in DOMAIN REQ_MAP : REQ_MAP[i].prefix = prefix
    THEN REQ_MAP[CHOOSE i \in DOMAIN REQ_MAP : REQ_MAP[i].prefix = prefix].fields
    ELSE <<>>

\* fields = REQ_MAP.get(re.split(r"\s", c["code"])[0], [])
FieldsOf(code) == REQ_MAP_get(re_split_space(code)[1])

\* x + y on floats
AddFloat(x, y) == Float(x.num * y.den + y.num * x.den, x.den * y.den)

\* totals[f] += credits for every f of fields, totals a defaultdict(float)
RECURSIVE AddToTotals(_, _, _)
AddToTotals(totals, fields, credits) ==
    IF fields = <<>> THEN totals
    ELSE LET f == Head(fields)
             old == IF f \in DOMAIN totals THEN totals[f] ELSE Float(0, 1)
         IN  AddToTotals(DictSet(totals, f, AddFloat(old, credits)), Tail(fields), credits)

\* the totals loop of parse_file: every course gets its fields, every field its credits
RECURSIVE Categorise(_, _, _)
Categorise(cs, k, acc) ==
    IF k > Len(cs) THEN acc
    ELSE LET fields == FieldsOf(cs[k].code)
             c == [code |-> cs[k].code, title |-> cs[k].title, credits |-> cs[k].credits,
                   professor |-> cs[k].professor, schedule |-> cs[k].schedule,
                   description |-> cs[k].description, fields |-> fields]
         IN  Categorise(cs, k + 1,
                 [courses |-> Append(acc.courses, c),
                  totals |-> AddToTotals(acc.totals, fields, c.credits)])

Parsed(cs, totals, opened) ==
    [raised |-> None, courses |-> cs, totals |-> totals, opened |-> opened]

ParseRaise(exc, opened) ==
    [raised |-> exc, courses |-> <<>>, totals |-> <<>>, opened |-> opened]

\* parse_file(path): the exception of any step is logged and raised again
parse_file(e, path) ==
    LET extracted == extract_rows(e, ResolvedPath(path))
        rows == extracted.rows
        header == _find_header_row(rows)
        col_index == _build_col_index(rows[header.idx + 1])
        assembled == Assemble(rows, header.idx + 2, col_index.mapping,
                              [raised |-> None, courses |-> <<>>])
        result == Categorise(assembled.courses, 1, [courses |-> <<>>, totals |-> <<>>])
    IN  IF extracted.raised # None THEN ParseRaise(extracted.raised, extracted.opened)
        ELSE IF header.raised # None THEN ParseRaise(header.raised, extracted.opened)
        ELSE IF col_index.raised # None THEN ParseRaise(col_index.raised, extracted.opened)
        ELSE IF assembled.raised # None THEN ParseRaise(assembled.raised, extracted.opened)
        ELSE Parsed(result.courses, result.totals, extracted.opened)

----------------------------------------------------------------------------
(* Directory-wide parse *)

\* fname.lower().endswith((".pdf", ".rtf"))
IsParsable(fname) == HasExtension(fname, <<".", "p", "d", "f">>) \/ HasExtension(fname, <<".", "r", "t", "f">>)

\* agg_totals with the totals of one more file written over it
OverwriteTotals(agg_totals, totals) ==
    [k \in DOMAIN agg_totals \cup DOMAIN totals |->
        IF k \in DOMAIN totals THEN totals[k] ELSE agg_totals[k]]

\* agg_totals[k] += v for k, v in d["totals"].items()
SumTotals(agg_totals, totals) ==
    [k \in DOMAIN agg_totals \cup DOMAIN totals |->
        AddFloat(IF k \in DOMAIN agg_totals THEN agg_totals[k] ELSE Float(0, 1),
                 IF k \in DOMAIN totals THEN totals[k] ELSE Float(0, 1))]

\* the loops of parse_directory with the try left out: the first failure ends the call
RECURSIVE ParseEachUnguarded(_, _, _, _)
ParseEachUnguarded(e, directory, listing, acc) ==
    IF listing = <<>> THEN acc
    ELSE LET d == parse_file(e, os_path_join(directory, Head(listing)))
         IN  IF ~IsParsable(Head(listing))
             THEN ParseEachUnguarded(e, directory, Tail(listing), acc)
             ELSE IF d.raised # None
             THEN ParseRaise(d.raised, acc.opened \cup d.opened)
             ELSE ParseEachUnguarded(e, directory, Tail(listing),
                     Parsed(acc.courses \o d.courses, SumTotals(acc.totals, d.totals),
                            acc.opened \cup d.opened))

\* the loops of parse_directory: a file that raises is logged and skipped
RECURSIVE ParseEach(_, _, _, _)
ParseEach(e, directory, listing, acc) ==
    IF listing = <<>> THEN acc
    ELSE LET d == parse_file(e, os_path_join(directory, Head(listing)))
         IN  ParseEach(e, directory, Tail(listing),
                 IF ~IsParsable(Head(listing)) THEN acc
                 ELSE IF d.raised # None
                 THEN [acc EXCEPT !.opened = @ \cup d.opened]
                 ELSE Parsed(acc.courses \o d.courses, SumTotals(acc.totals, d.totals),
                             acc.opened \cup d.opened))

\* parse_directory(directory), os.listdir giving the names in the order of listing
parse_directory(e, directory, listing) ==
    IF directory \notin Directories THEN ParseRaise("FileNotFoundError", {})
    ELSE ParseEach(e, directory, listing, Parsed(<<>>, <<>>, {}))

----------------------------------------------------------------------------
(* The files the parsers are run on *)

MaxFiles == 2       \* most files in the data directory

HeaderRow == <<<<"C", "o", "u", "r", "s", "e", " ", "C", "o", "d", "e">>, <<"C", "o", "u", "r", "s", "e", " ", "T", "i", "t", "l", "e">>, <<"C", "r", "e", "d", "i", "t", "s">>, <<"D", "e", "s", "c", "r", "i", "p", "t", "i", "o", "n">>>>

\* two tables on two pages: the second has two columns only
SchedulePdf ==
    File(TRUE,
         <<Page(<<<<HeaderRow,
                    <<<<"B", "X", " ", "1", "0", "1">>, <<"I", "n", "t", "r", "o">>, <<"3">>, <<"i", "n", "t", "r", "o", " ", "t", "e", "x", "t">>>>,
                    <<NoneText, NoneText, NoneText, <<"c", "o", "n", "t", "i", "n", "u", "e", "d", ".", ".", ".">>>>,
                    <<<<"T", "H", " ", "2", "0", "1">>, <<" ", "E", "t", "h", "i", "c", "s", " ">>, <<"3", " ", "c", "r", "e", "d", "i", "t", "s">>, NoneText>>>>>>, NoneText),
           Page(<<<<<<NoneText, <<"m", "o", "r", "e">>>>,
                    <<NoneText, <<" ">>>>,
                    <<<<"B", "X", " ", "1", "0", "2">>, <<"P", "s", "a", "l", "m", "s">>>>>>>>, NoneText)>>,
         <<>>,
         <<[code |-> <<"B", "X", "1", "0", "1">>, name |-> <<"I", "n", "t", "r", "o">>], [code |-> <<"T", "H", "2", "0", "1">>, name |-> <<"E", "t", "h", "i", "c", "s">>]>>,
         <<[name |-> <<"C", "o", "r", "e", " ", "R", "e", "q", "u", "i", "r", "e", "m", "e", "n", "t", "s">>, description |-> <<"C", "o", "r", "e", " ", "R", "e", "q", "u", "i", "r", "e", "m", "e", "n", "t", "s", ":", " ", "6", "0", " ", "c", "r", "e", "d", "i", "t", "s", " ", "r", "e", "q", "u", "i", "r", "e", "d">>,
            credits_required |-> Credits(60), courses |-> <<<<"B", "X", "1", "0", "1">>, <<"T", "H", "2", "0", "1">>>>]>>)

\* a header without optional columns, a course without credits, a note row
PlainPdf ==
    File(TRUE,
         <<Page(<<<<<<<<"C", "a", "t", "a", "l", "o", "g">>, NoneText, NoneText>>,
                    <<<<" ", "c", "o", "u", "r", "s", "e", " ", "c", "o", "d", "e", " ">>, <<"C", "o", "u", "r", "s", "e", " ", "T", "i", "t", "l", "e">>, <<"C", "R", "E", "D", "I", "T", "S">>>>,
                    <<NoneText, <<"n", "o", "n", "e", " ", "y", "e", "t">>, NoneText>>,
                    <<<<"B", "X", " ", "2", "0", "0">>, <<"P", "r", "o", "p", "h", "e", "t", "s">>, NoneText>>,
                    <<NoneText, <<"n", "o", "t", "e">>, NoneText>>,
                    <<<<"Z", "Z", " ", "9">>, <<"M", "i", "s", "c">>, <<"1", ".", "5">>>>,
                    <<<<"S", "W", "5", "0", "1">>, <<"P", "o", "l", "i", "c", "y">>, <<"3">>>>>>>>, NoneText)>>,
         <<>>,
         <<[code |-> <<"S", "W", "5", "0", "1">>, name |-> <<"P", "o", "l", "i", "c", "y">>]>>, <<>>)

\* an RTF: its plain text, a wrapped line under the course
PlainRtf ==
    File(TRUE, <<>>,
         <<"C", "o", "u", "r", "s", "e", " ", "C", "o", "d", "e", " ", " ", "C", "o", "u", "r", "s", "e", " ", "T", "i", "t", "l", "e", " ", " ", "C", "r", "e", "d", "i", "t", "s", "\n", "H", "B", " ", "1", "0", "0", " ", " ", "H", "e", "b", "r", "e", "w", " ", " ", "3", "\n", " ", " ", " ", "w", "r", "a", "p", "p", "e", "d", " ", " ", "l", "i", "n", "e", "\n">>,
         <<[code |-> <<"H", "B", "1", "0", "0">>, name |-> <<"H", "e", "b", "r", "e", "w", " ", " ", "3">>]>>, <<>>)

\* a credits cell that is no number
TbdPdf ==
    File(TRUE,
         <<Page(<<<<<<<<"C", "o", "u", "r", "s", "e", " ", "C", "o", "d", "e">>, <<"C", "o", "u", "r", "s", "e", " ", "T", "i", "t", "l", "e">>, <<"C", "r", "e", "d", "i", "t", "s">>>>,
                    <<<<"N", "T", " ", "2", "9", "9">>, <<"M", "a", "r", "k">>, <<"3">>>>,
                    <<<<"N", "T", " ", "3", "0", "0">>, <<"P", "a", "u", "l">>, <<"T", "B", "D">>>>>>>>, NoneText)>>,
         <<>>,
         <<[code |-> <<"N", "T", "2", "9", "9">>, name |-> <<"M", "a", "r", "k">>], [code |-> <<"N", "T", "3", "0", "0">>, name |-> <<"P", "a", "u", "l">>]>>, <<>>)

\* a file no reader can open
BrokenFile == File(FALSE, <<>>, <<>>, <<>>, <<>>)

\* a table without a header row
NoHeaderPdf ==
    File(TRUE,
         <<Page(<<<<<<<<"N", "a", "m", "e">>, <<"U", "n", "i", "t", "s">>>>, <<<<"B", "X", " ", "1">>, <<"3">>>>>>>>, NoneText)>>,
         <<>>, <<>>, <<>>)

\* a header row without the Credits column
NoCreditsPdf ==
    File(TRUE,
         <<Page(<<<<<<<<"C", "o", "u", "r", "s", "e", " ", "C", "o", "d", "e">>, <<"C", "o", "u", "r", "s", "e", " ", "T", "i", "t", "l", "e">>>>,
                    <<<<"B", "X", " ", "3", "0", "0">>, <<"J", "o", "b">>>>>>>>, NoneText)>>,
         <<>>,
         <<[code |-> <<"B", "X", "3", "0", "0">>, name |-> <<"J", "o", "b">>], [code |-> <<"B", "X", "1", "0", "1">>, name |-> <<"G", "e", "n", "e", "s", "i", "s">>]>>,
         <<[name |-> <<"E", "l", "e", "c", "t", "i", "v", "e", "s">>, description |-> <<"E", "l", "e", "c", "t", "i", "v", "e", "s">>,
            credits_required |-> NoCredits, courses |-> <<<<"B", "X", "3", "0", "0">>>>],
           [name |-> <<"C", "o", "r", "e", " ", "R", "e", "q", "u", "i", "r", "e", "m", "e", "n", "t", "s">>, description |-> <<"C", "o", "r", "e", " ", "r", "e", "q", "u", "i", "r", "e", "m", "e", "n", "t", "s">>,
            credits_required |-> NoCredits, courses |-> <<<<"B", "X", "1", "0", "1">>>>]>>)

\* a PDF without tables: its text is split into rows
TextPdf ==
    File(TRUE,
         <<Page(<<>>, <<"C", "o", "u", "r", "s", "e", " ", "C", "o", "d", "e", " ", " ", " ", "C", "o", "u", "r", "s", "e", " ", "T", "i", "t", "l", "e", " ", " ", "C", "r", "e", "d", "i", "t", "s", "\n", "B", "X", " ", "1", "0", "1", " ", " ", " ", "I", "n", "t", "r", "o", " ", " ", "3", "\n", "Z", "Z", " ", "9", " ", " ", "M", "i", "s", "c", " ", " ", " ", "1", ".", "5">>),
           Page(<<>>, NoneText)>>,
         <<>>,
         <<[code |-> <<"B", "X", "1", "0", "1">>, name |-> <<"I", "n", "t", "r", "o", " ", " ", "3">>]>>, <<>>)

TextFile == File(TRUE, <<>>, <<"n", "o", "t", "e", "s">>, <<>>, <<>>)

\* the files the data directory may hold, by name
DataFiles ==
    (<<"a", ".", "p", "d", "f">> :> SchedulePdf) @@ (<<"b", ".", "P", "D", "F">> :> PlainPdf) @@ (<<"c", ".", "r", "t", "f">> :> PlainRtf)
    @@ (<<"d", ".", "p", "d", "f">> :> TbdPdf) @@ (<<"e", ".", "p", "d", "f">> :> BrokenFile) @@ (<<"f", ".", "p", "d", "f">> :> NoHeaderPdf)
    @@ (<<"g", ".", "p", "d", "f">> :> NoCreditsPdf) @@ (<<"h", ".", "p", "d", "f">> :> TextPdf) @@ (<<"n", "o", "t", "e", "s", ".", "t", "x", "t">> :> TextFile)

\* files outside the data directory
OutsideFiles ==
    (<<"/", "e", "t", "c", "/", "a", ".", "p", "d", "f">> :> TbdPdf) @@ (<<".", "/", "o", "t", "h", "e", "r", "/", "a", ".", "p", "d", "f">> :> NoHeaderPdf)
    @@ (<<".", "/", "o", "t", "h", "e", "r", "/", "z", ".", "p", "d", "f">> :> PlainPdf)

\* a file system with the chosen files in the data directory
Disk(names) ==
    [p \in {os_path_join(DATA_DIR, n) : n \in names} |-> DataFiles[os_path_basename(p)]]
    @@ OutsideFiles

\* the paths the parsers are called with
Paths ==
    DOMAIN DataFiles
    \cup {<<"m", "i", "s", "s", "i", "n", "g", ".", "p", "d", "f">>, <<".", "/", "_", "c", "o", "n", "t", "e", "x", "t", "/", "a", ".", "p", "d", "f">>, <<"/", "e", "t", "c", "/", "a", ".", "p", "d", "f">>, <<".", ".", "/", "b", ".", "P", "D", "F">>,
          <<".", "/", "o", "t", "h", "e", "r", "/", "z", ".", "p", "d", "f">>, <<"s", "u", "b", "/">>}

\* the orders in which os.listdir may give a set of names
Listings(names) ==
    {s \in [1..Cardinality(names) -> names] : \A i, j \in DOMAIN s : i # j => s[i] # s[j]}

InitParse ==
    /\ heap = <<>>
    /\ plans = <<>>
    /\ clock = 0
    /\ courses = <<>>
    /\ requirements = <<>>
    /\ \E names \in SUBSET DOMAIN DataFiles, striprtf \in BOOLEAN :
          /\ Cardinality(names) <= MaxFiles
          /\ env = [files |-> Disk(names), striprtf |-> striprtf]
    /\ last = [op |-> "start"]

\* the parsers keep nothing from one call to the next: a run is one call
\* made on the files found at start
Started == last.op = "start"

\* extract_rows(path)
ExtractRows(path) ==
    /\ Started
    /\ last' = [op |-> "extract_rows", path |-> path, ret |-> extract_rows(env, path)]
    /\ UNCHANGED <<heap, plans, clock, courses, requirements, env>>

\* parse_file(path)
ParseFile(path) ==
    /\ Started
    /\ last' = [op |-> "parse_file", path |-> path, ret |-> parse_file(env, path)]
    /\ UNCHANGED <<heap, plans, clock, courses, requirements, env>>

\* parse_directory(directory)
ParseDirectory(directory) ==
    /\ Started
    /\ \E listing \in Listings(os_listdir(env, directory)) :
          last' = [op |-> "parse_directory", directory |-> directory, listing |-> listing,
                   ret |-> parse_directory(env, directory, listing)]
    /\ UNCHANGED <<heap, plans, clock, courses, requirements, env>>

----------------------------------------------------------------------------
(* The backend's directory parse (backend/parsers.py) *)

\* parser.parse_rtf_file(file_path) / parser.parse_pdf_file(file_path): any
\* exception of the reader becomes an error result
ParseResult(e, file_path) ==
    IF file_path \in DOMAIN e.files /\ e.files[file_path].readable
    THEN [filename |-> os_path_basename(file_path), status |-> "success",
          extracted_courses |-> e.files[file_path].found,
          extracted_requirements |-> e.files[file_path].sections]
    ELSE [filename |-> os_path_basename(file_path), status |-> "error",
          extracted_courses |-> <<>>, extracted_requirements |-> <<>>]

IsRtf(f) == endswith(f, <<".", "r", "t", "f">>)

IsPdf(f) == endswith(f, <<".", "p", "d", "f">>)

\* the courses of the results that have status success, in their order
RECURSIVE AllCourses(_)
AllCourses(parse_results) ==
    IF parse_results = <<>> THEN <<>>
    ELSE (IF Head(parse_results).status = "success"
          THEN Head(parse_results).extracted_courses ELSE <<>>)
         \o AllCourses(Tail(parse_results))

\* unique_courses: the first course of every code, in order of first appearance
RECURSIVE UniqueCourses(_, _)
UniqueCourses(all_courses, unique) ==
    IF all_courses = <<>> THEN unique
    ELSE LET course == Head(all_courses)
         IN  UniqueCourses(Tail(all_courses),
                 IF course.code # <<>> /\ \A i \in DOMAIN unique : unique[i].code # course.code
                 THEN Append(unique, course) ELSE unique)

\* the requirements of the results that have status success, in their order
RECURSIVE AllRequirements(_)
AllRequirements(parse_results) ==
    IF parse_results = <<>> THEN <<>>
    ELSE (IF Head(parse_results).status = "success"
          THEN Head(parse_results).extracted_requirements ELSE <<>>)
         \o AllRequirements(Tail(parse_results))

\* unique_requirements: the first requirement of every name
RECURSIVE UniqueRequirements(_, _)
UniqueRequirements(all_requirements, unique) ==
    IF all_requirements = <<>> THEN unique
    ELSE LET req == Head(all_requirements)
         IN  UniqueRequirements(Tail(all_requirements),
                 IF req.name # <<>> /\ \A i \in DOMAIN unique : unique[i].name # req.name
                 THEN Append(unique, req) ELSE unique)

\* parse_context_files(context_dir), os.listdir giving the names in the order of listing
parse_context_files(e, context_dir, listing) ==
    IF ~os_path_exists(e, context_dir)
    THEN [error |-> "not found", parse_results |-> <<>>, courses |-> <<>>,
          requirements |-> <<>>]
    ELSE LET files == SelectSeq(listing, IsRtf) \o SelectSeq(listing, IsPdf)
             parse_results == [i \in DOMAIN files |->
                                  ParseResult(e, os_path_join(context_dir, files[i]))]
         IN  [error |-> None, parse_results |-> parse_results,
              courses |-> UniqueCourses(AllCourses(parse_results), <<>>),
              requirements |-> UniqueRequirements(AllRequirements(parse_results), <<>>)]

\* parse_context_files(context_dir)
ParseContextFiles(context_dir) ==
    /\ Started
    /\ \E listing \in Listings(os_listdir(env, context_dir)) :
          last' = [op |-> "parse_context_files", directory |-> context_dir,
                   listing |-> listing,
                   ret |-> parse_context_files(env, context_dir, listing)]
    /\ UNCHANGED <<heap, plans, clock, courses, requirements, env>>

NextParse ==
    \/ \E path \in Paths : ExtractRows(path)
    \/ \E path \in Paths : ParseFile(path)
    \/ \E directory \in {DATA_DIR, <<".", "/", "o", "t", "h", "e", "r">>} : ParseDirectory(directory)
    \/ \E context_dir \in {DATA_DIR, <<".", "/", "n", "o", "w", "h", "e", "r", "e">>} : ParseContextFiles(context_dir)

SpecParse == InitParse /\ [][NextParse]_vars

----------------------------------------------------------------------------
(* CSV export (utils.py) *)

\* a Course with all the fields of the dataclass; the id is the key a plan
\* selects by, satisfies is a set of requirement ids
CourseOffering(id, code, title, faculty, credits, days, time, semester, delivery_mode, description, satisfies) ==
    [id |-> id, code |-> code, title |-> title, faculty |-> faculty,
     credits |-> credits, days |-> days, time |-> time, semester |-> semester,
     delivery_mode |-> delivery_mode, description |-> description,
     satisfies |-> satisfies]

\* the orders in which iterating a set of strings may yield its members
Orderings(S) ==
    {o \in [1..Cardinality(S) -> S] : \A i, j \in 1..Cardinality(S) : o[i] = o[j] => i = j}

\* one iteration order for the satisfies set of each course of the lookup
Iterations(lookup) ==
    {it \in [DOMAIN lookup -> UNION {Orderings(lookup[id].satisfies) : id \in DOMAIN lookup}] :
        \A id \in DOMAIN lookup : it[id] \in Orderings(lookup[id].satisfies)}

\* a row that takes its Semester from the course, not from the plan
CsvRowOfCourseSemester(semester, course, order) ==
    [Semester |-> course.semester,
     CourseCode |-> course.code,
     CourseTitle |-> course.title,
     Faculty |-> course.faculty,
     Credits |-> course.credits,
     Days |-> course.days,
     Time |-> course.time,
     DeliveryMode |-> course.delivery_mode,
     Description |-> course.description,
     SatisfiesRequirements |-> join(<<",", " ">>, order)]

\* the dict appended to csv_data for one selected course
CsvRow(semester, course, order) ==
    [Semester |-> semester,
     CourseCode |-> course.code,
     CourseTitle |-> course.title,
     Faculty |-> course.faculty,
     Credits |-> course.credits,
     Days |-> course.days,
     Time |-> course.time,
     DeliveryMode |-> course.delivery_mode,
     Description |-> course.description,
     SatisfiesRequirements |-> join(<<",", " ">>, order)]

\* the inner loop: the rows of one semester's course ids
RECURSIVE RowsOfSemester(_, _, _, _)
RowsOfSemester(semester, ids, lookup, it) ==
    IF ids = <<>> THEN <<>>
    ELSE LET cid == Head(ids)
             rest == RowsOfSemester(semester, Tail(ids), lookup, it)
         IN  IF cid \in DOMAIN lookup
             THEN <<CsvRow(semester, lookup[cid], it[cid])>> \o rest
             ELSE rest

\* the outer loop over plan.selections.items()
RECURSIVE CsvData(_, _, _)
CsvData(sel, lookup, it) ==
    IF sel = <<>> THEN <<>>
    ELSE RowsOfSemester(Head(sel).sem, Head(sel).ids, lookup, it)
         \o CsvData(Tail(sel), lookup, it)

\* export_plan_to_csv: the rows of the frame it returns; it is the order in
\* which ', '.join iterates each course's satisfies set
export_plan_to_csv(sel, cs, it) == CsvData(sel, course_lookup(cs), it)

\* the file df.to_csv(filepath, index=False) leaves: the rows of the frame
\* under its column names (how pandas renders a cell is not modelled)
CsvFile(df) == [frame |-> df]

Bible101 ==
    CourseOffering("BIBL101", <<"B", "I", "B", "L", " ", "1", "0", "1">>, <<"B", "i", "b", "l", "i", "c", "a", "l", " ", "S", "t", "u", "d", "i", "e", "s", " ", "I">>, <<"D", "r", ".", " ", "S", "m", "i", "t", "h">>,
                   Frac(3, 1), <<"M", "W">>, <<"1", "0", ":", "0", "0", "-", "1", "1", ":", "3", "0">>, "Fall 2025", <<"I", "n", " ", "P", "e", "r", "s", "o", "n">>,
                   <<"B", "i", "b", "l", "i", "c", "a", "l", " ", "s", "t", "u", "d", "i", "e", "s", " ", "c", "o", "u", "r", "s", "e">>, {<<"b", "i", "b", "l", "e">>})

Bible101Online ==
    CourseOffering("BIBL101", <<"B", "I", "B", "L", " ", "1", "0", "1">>, <<"B", "i", "b", "l", "i", "c", "a", "l", " ", "S", "t", "u", "d", "i", "e", "s", " ", "I", " ", "(", "o", "n", "l", "i", "n", "e", ")">>, <<"D", "r", ".", " ", "L", "e", "e">>,
                   Frac(3, 1), <<>>, <<>>, "Spring 2026", <<"O", "n", "l", "i", "n", "e">>, <<>>, {})

Bible201 ==
    CourseOffering("BIBL201", <<"B", "I", "B", "L", " ", "2", "0", "1">>, <<"B", "i", "b", "l", "i", "c", "a", "l", " ", "S", "t", "u", "d", "i", "e", "s", " ", "I", "I">>, <<"D", "r", ".", " ", "J", "o", "n", "e", "s">>,
                   Frac(3, 2), <<"T", "R">>, <<"1", "4", ":", "0", "0", "-", "1", "5", ":", "3", "0">>, "Spring 2026", <<"H", "y", "b", "r", "i", "d">>,
                   <<"S", "e", "c", "o", "n", "d", " ", "c", "o", "u", "r", "s", "e">>, {<<"b", "i", "b", "l", "e">>, <<"t", "h", "e", "o", "l", "o", "g", "y">>})

\* the catalogs the export is run on: none, the test's one course, two
\* courses, and a catalog that lists an id twice
ExportCatalogs ==
    {<<>>, <<Bible101>>, <<Bible101, Bible201>>, <<Bible101, Bible201, Bible101Online>>}

ExportPaths == {"plan.csv"}

InitExport ==
    /\ InitPlan(0)
    /\ courses \in ExportCatalogs
    /\ requirements = <<>>

\* export_plan_to_csv(plan, courses, filepath)
ExportPlanToCsv(pl, filepath) ==
    /\ pl \in Live
    /\ \E it \in Iterations(course_lookup(courses)) :
          LET df == export_plan_to_csv(SelectionsOf(pl), courses, it)
          IN  /\ env' = [env EXCEPT !.files = (filepath :> CsvFile(df)) @@ env.files]
              /\ last' = [op |-> "export_plan_to_csv", plan |-> pl,
                          filepath |-> filepath, ret |-> df]
    /\ UNCHANGED <<heap, plans, clock, courses, requirements>>

NextExport ==
    \/ \E s \in Semesters, c \in CourseIds : AddCourse("p", s, c)
    \/ \E f \in ExportPaths : ExportPlanToCsv("p", f)

SpecExport == InitExport /\ [][NextExport]_vars

----------------------------------------------------------------------------
(* One file at a time: the rows of a file and the courses made of them *)

\* a header that names Course Code twice and Days/Times twice, one cell
\* holding two keywords
TwiceNamedPdf ==
    File(TRUE,
         <<Page(<<<<<<<<"C", "o", "u", "r", "s", "e", " ", "C", "o", "d", "e">>, <<"C", "o", "u", "r", "s", "e", " ", "T", "i", "t", "l", "e">>, <<"C", "r", "e", "d", "i", "t", "s">>, <<"D", "a", "y", "s", " ", "o", "r", " ", "d", "e", "s", "c", "r", "i", "p", "t", "i", "o", "n">>,
                      <<"A", "l", "t", " ", "c", "o", "u", "r", "s", "e", " ", "c", "o", "d", "e">>, <<"D", "e", "s", "c", "r", "i", "p", "t", "i", "o", "n">>, <<"D", "a", "y", "s", "/", "T", "i", "m", "e", "s">>>>,
                    <<<<"S", "W", " ", "5", "0", "0">>, <<"S", "t", "a", "t", "s">>, <<"3">>, <<"M", "W">>, NoneText, <<"t", "e", "x", "t">>, <<"M", "W", " ", "9", "-", "1", "0">>>>,
                    <<<<"S", "W", "5", "0", "1">>, <<"P", "o", "l", "i", "c", "y">>, <<"3">>, <<"T", "R">>, <<"Z", "Z", " ", "7">>, <<"m", "o", "r", "e">>, NoneText>>>>>>,
                NoneText)>>,
         <<>>, <<>>, <<>>)

\* a course-like row before the header, a row without code before the first
\* course, a later row that has both header words, a code that comes twice
LateHeaderPdf ==
    File(TRUE,
         <<Page(<<<<<<<<"B", "X", " ", "0", "0", "1">>, <<"B", "e", "f", "o", "r", "e">>, <<"3">>>>,
                    <<<<"C", "o", "u", "r", "s", "e", " ", "C", "o", "d", "e">>, <<"C", "o", "u", "r", "s", "e", " ", "T", "i", "t", "l", "e">>, <<"C", "r", "e", "d", "i", "t", "s">>>>,
                    <<NoneText, <<"o", "r", "p", "h", "a", "n">>, NoneText>>,
                    <<<<"B", "X", " ", "1", "0", "1">>, <<"I", "n", "t", "r", "o">>, <<"3">>>>,
                    <<<<"C", "o", "d", "e", " ", "o", "f", " ", "c", "o", "u", "r", "s", "e">>, <<"L", "a", "t", "e", "r">>, <<"2">>>>>>>>, NoneText),
           Page(<<<<<<<<"B", "X", " ", "1", "0", "1">>, <<"I", "n", "t", "r", "o", " ", "a", "g", "a", "i", "n">>, <<"3">>>>,
                    <<<<"S", "W", " ", "5", "0", "0">>, <<"S", "t", "a", "t", "s">>, <<"3">>>>,
                    <<<<"S", "W", "5", "0", "1">>, <<"P", "o", "l", "i", "c", "y">>, <<"3">>>>,
                    <<<<"E", "T", "H", "1", "0", "1">>, <<"E", "t", "h", "i", "c", "s">>, <<"1", ".", "5">>>>>>>>, NoneText)>>,
         <<>>, <<>>, <<>>)

\* tables whose rows are all blank, the courses in the page text
BlankTablePdf ==
    File(TRUE,
         <<Page(<<<<<<NoneText, <<" ">>>>, <<>>>>, <<>>>>,
                <<"C", "o", "u", "r", "s", "e", " ", "C", "o", "d", "e", " ", " ", "C", "o", "u", "r", "s", "e", " ", "T", "i", "t", "l", "e", " ", " ", "C", "r", "e", "d", "i", "t", "s", "\n", "C", "H", " ", "1", "0", "0", " ", " ", "H", "i", "s", "t", "o", "r", "y", " ", " ", "3", "\n", " ", " ", "t", "a", "u", "g", "h", "t", " ", "i", "n", " ", " ", "s", "p", "r", "i", "n", "g">>)>>,
         <<>>, <<>>, <<>>)

\* a PDF without tables and without text
EmptyPdf == File(TRUE, <<Page(<<>>, NoneText), Page(<<>>, <<" ", "\n">>)>>, <<>>, <<>>, <<>>)

\* an RTF whose Course Code column is the second one
CodeSecondRtf ==
    File(TRUE, <<>>,
         <<"C", "o", "u", "r", "s", "e", " ", "T", "i", "t", "l", "e", " ", " ", "C", "o", "u", "r", "s", "e", " ", "C", "o", "d", "e", " ", " ", "C", "r", "e", "d", "i", "t", "s", "\n", "H", "e", "b", "r", "e", "w", " ", " ", "H", "B", " ", "1", "0", "0", " ", " ", "3", "\n", "w", "r", "a", "p", "p", "e", "d", "\n">>,
         <<[code |-> <<"H", "B", "1", "0", "0">>, name |-> <<"3">>]>>, <<>>)

\* the files a single parse is run on, by name
FilePool ==
    DataFiles @@ (<<"i", ".", "p", "d", "f">> :> TwiceNamedPdf) @@ (<<"j", ".", "p", "d", "f">> :> LateHeaderPdf)
    @@ (<<"k", ".", "p", "d", "f">> :> BlankTablePdf) @@ (<<"l", ".", "p", "d", "f">> :> EmptyPdf) @@ (<<"m", ".", "r", "t", "f">> :> CodeSecondRtf)

\* the data directory holds one file
InitFile ==
    /\ heap = <<>>
    /\ plans = <<>>
    /\ clock = 0
    /\ courses = <<>>
    /\ requirements = <<>>
    /\ \E name \in DOMAIN FilePool, striprtf \in BOOLEAN :
          env = [files |-> (os_path_join(DATA_DIR, name) :> FilePool[name]),
                 striprtf |-> striprtf]
    /\ last = [op |-> "start"]

NextFile ==
    \/ \E path \in DOMAIN FilePool : ExtractRows(path)
    \/ \E path \in DOMAIN FilePool : ParseFile(path)

SpecFile == InitFile /\ [][NextFile]_vars

----------------------------------------------------------------------------
(* The HTTP API (backend/main.py): the catalog it serves *)

CONTEXT_DIR == <<".", ".", "/", "_", "c", "o", "n", "t", "e", "x", "t">>

\* a directory, as an entry of the file system
Folder == File(FALSE, <<>>, <<>>, <<>>, <<>>)

SAMPLE_COURSES ==
    <<[code |-> <<"B", "I", "B", "L", "1", "0", "1">>, name |-> <<"I", "n", "t", "r", "o", "d", "u", "c", "t", "i", "o", "n", " ", "t", "o", " ", "B", "i", "b", "l", "i", "c", "a", "l", " ", "S", "t", "u", "d", "i", "e", "s">>],
      [code |-> <<"T", "H", "E", "O", "2", "0", "1">>, name |-> <<"S", "y", "s", "t", "e", "m", "a", "t", "i", "c", " ", "T", "h", "e", "o", "l", "o", "g", "y">>],
      [code |-> <<"S", "W", "5", "0", "1">>, name |-> <<"S", "o", "c", "i", "a", "l", " ", "W", "o", "r", "k", " ", "P", "r", "a", "c", "t", "i", "c", "e", " ", "I">>]>>

SAMPLE_REQUIREMENTS ==
    <<[name |-> <<"U", "T", "S", " ", "M", ".", "D", "i", "v", " ", "C", "o", "r", "e", " ", "R", "e", "q", "u", "i", "r", "e", "m", "e", "n", "t", "s">>,
       description |-> <<"C", "o", "r", "e", " ", "t", "h", "e", "o", "l", "o", "g", "i", "c", "a", "l", " ", "e", "d", "u", "c", "a", "t", "i", "o", "n", " ", "r", "e", "q", "u", "i", "r", "e", "m", "e", "n", "t", "s">>,
       credits_required |-> Credits(60), courses |-> <<<<"B", "I", "B", "L", "1", "0", "1">>, <<"T", "H", "E", "O", "2", "0", "1">>>>],
      [name |-> <<"C", "o", "l", "u", "m", "b", "i", "a", " ", "M", "S", "S", "W", " ", "R", "e", "q", "u", "i", "r", "e", "m", "e", "n", "t", "s">>,
       description |-> <<"S", "o", "c", "i", "a", "l", " ", "w", "o", "r", "k", " ", "d", "e", "g", "r", "e", "e", " ", "r", "e", "q", "u", "i", "r", "e", "m", "e", "n", "t", "s">>,
       credits_required |-> Credits(60), courses |-> <<<<"S", "W", "5", "0", "1">>>>]>>

\* PARSED_DATA as the module defines it
EmptyParsedData == [courses |-> <<>>, requirements |-> <<>>]

\* load_context_data(): PARSED_DATA after the call
load_context_data(e, parsed, listing) ==
    IF ~os_path_exists(e, CONTEXT_DIR) THEN parsed
    ELSE LET parsed_data == parse_context_files(e, CONTEXT_DIR, listing)
         IN  IF parsed_data.error # None THEN parsed
             ELSE [courses |-> parsed_data.courses, requirements |-> parsed_data.requirements]

\* GET /courses
get_courses(parsed) == IF parsed.courses # <<>> THEN parsed.courses ELSE SAMPLE_COURSES

\* int(req.get('credits_required', 0) or 0) where credits_required is no int
IntCredits(credits_required) ==
    IF credits_required = NoCredits THEN Credits(0) ELSE credits_required

\* GET /requirements: the list returned, and PARSED_DATA['requirements']
\* whose dicts the loop has rewritten
get_requirements(parsed) ==
    LET requirements_data ==
            [i \in DOMAIN parsed.requirements |->
                [parsed.requirements[i] EXCEPT !.credits_required = IntCredits(@)]]
    IN  [ret |-> requirements_data, requirements |-> requirements_data]

\* a file system with the context directory and the chosen files in it
ContextDisk(names) ==
    (CONTEXT_DIR :> Folder)
    @@ [p \in {os_path_join(CONTEXT_DIR, n) : n \in names} |-> DataFiles[os_path_basename(p)]]

\* the module as defined, before load_context_data() has run; the context
\* directory may be absent
InitApi ==
    /\ heap = <<>>
    /\ plans = <<>>
    /\ clock = 0
    /\ courses = EmptyParsedData.courses
    /\ requirements = EmptyParsedData.requirements
    /\ \/ env = [files |-> <<>>, striprtf |-> TRUE]
       \/ \E names \in SUBSET DOMAIN DataFiles :
             /\ Cardinality(names) <= MaxFiles
             /\ env = [files |-> ContextDisk(names), striprtf |-> TRUE]
    /\ last = [op |-> "start"]

ParsedData == [courses |-> courses, requirements |-> requirements]

\* load_context_data(), called once when the module is imported
LoadContextData ==
    /\ Started
    /\ \E listing \in Listings(os_listdir(env, CONTEXT_DIR)) :
          LET parsed == load_context_data(env, ParsedData, listing)
          IN  /\ courses' = parsed.courses
              /\ requirements' = parsed.requirements
              /\ last' = [op |-> "load_context_data", listing |-> listing]
    /\ UNCHANGED <<heap, plans, clock, env>>

\* GET /courses
GetCourses ==
    /\ ~Started
    /\ last' = [op |-> "get_courses", ret |-> get_courses(ParsedData)]
    /\ UNCHANGED <<heap, plans, clock, courses, requirements, env>>

\* GET /requirements
GetRequirements ==
    /\ ~Started
    /\ LET r == get_requirements(ParsedData)
       IN  /\ requirements' = r.requirements
           /\ last' = [op |-> "get_requirements", ret |-> r.ret]
    /\ UNCHANGED <<heap, plans, clock, courses, env>>

NextApi ==
    \/ LoadContextData
    \/ GetCourses
    \/ GetRequirements

SpecApi == InitApi /\ [][NextApi]_vars

----------------------------------------------------------------------------
(* The HTTP API (backend/main.py): the plan store *)

PLANS_DIR == <<"p", "l", "a", "n", "s">>

DegreePlan(student_name, start_semester) ==
    [student_name |-> student_name, start_semester |-> start_semester,
     courses |-> <<>>, total_credits |-> 0]

IsSafeChar(c) == c \in Range(UpperCase) \cup Range(LowerCase) \cup Range(Digits) \cup {"_", "-"}

\* re.sub(r"[^a-zA-Z0-9_-]", "_", student_name)
safe_name(student_name) ==
    [i \in DOMAIN student_name |-> IF IsSafeChar(student_name[i]) THEN student_name[i] ELSE "_"]

\* _plan_file_path(student_name)
_plan_file_path(student_name) ==
    os_path_join(PLANS_DIR, safe_name(student_name) \o <<".", "j", "s", "o", "n">>)

\* the file json.dump(plan.model_dump(), f) writes: strings and ints, which
\* json.load gives back as they were
PlanFile(plan) == [data |-> plan]

\* _save_plan_to_disk(plan): the files after the call
_save_plan_to_disk(files, plan) ==
    LET file_path == _plan_file_path(plan.student_name)
    IN  [p \in DOMAIN files \cup {file_path} |->
            IF p = file_path THEN PlanFile(plan) ELSE files[p]]

NoPlan == [found |-> FALSE, plan |-> DegreePlan(<<>>, "")]

\* _load_plan_from_disk(student_name): None, or DegreePlan(**data)
_load_plan_from_disk(files, student_name) ==
    LET file_path == _plan_file_path(student_name)
    IN  IF file_path \notin DOMAIN files THEN NoPlan
        ELSE [found |-> TRUE, plan |-> files[file_path].data]

\* POST /plans: PLAN_STORAGE and the files after the call
save_plan(storage, files, plan) ==
    [storage |-> [n \in DOMAIN storage \cup {plan.student_name} |->
                     IF n = plan.student_name THEN plan ELSE storage[n]],
     files |-> _save_plan_to_disk(files, plan),
     ret |-> plan]

\* GET /plans/{student_name}: the status, the plan returned, PLAN_STORAGE after the call
get_plan(storage, files, student_name) ==
    IF student_name \in DOMAIN storage
    THEN [status |-> 200, ret |-> storage[student_name], storage |-> storage]
    ELSE LET loaded == _load_plan_from_disk(files, student_name)
         IN  IF loaded.found
             THEN [status |-> 200, ret |-> loaded.plan,
                   storage |-> [n \in DOMAIN storage \cup {student_name} |->
                                   IF n = student_name THEN loaded.plan ELSE storage[n]]]
             ELSE [status |-> 404, ret |-> NoPlan.plan, storage |-> storage]

StudentNames == {<<"a", "n", "n">>, <<"a", " ", "b">>, <<"a", "_", "b">>}

StartSemesters == {"Fall 2025", "Spring 2026"}

\* the module after import: no plan in memory, an empty plans directory;
\* last.saved is the plan most recently posted under each name
InitPlans ==
    /\ heap = <<>>
    /\ plans = <<>>
    /\ clock = 0
    /\ courses = <<>>
    /\ requirements = <<>>
    /\ env = [files |-> <<>>, striprtf |-> TRUE]
    /\ last = [op |-> "start", saved |-> <<>>]

\* POST /plans
SavePlan(plan) ==
    /\ LET r == save_plan(plans, env.files, plan)
       IN  /\ plans' = r.storage
           /\ env' = [env EXCEPT !.files = r.files]
           /\ last' = [op |-> "save_plan", name |-> plan.student_name, status |-> 200,
                       ret |-> r.ret,
                       saved |-> [n \in DOMAIN last.saved \cup {plan.student_name} |->
                                     IF n = plan.student_name THEN plan ELSE last.saved[n]]]
    /\ UNCHANGED <<heap, clock, courses, requirements>>

\* GET /plans/{student_name}
GetPlan(student_name) ==
    /\ LET r == get_plan(plans, env.files, student_name)
       IN  /\ plans' = r.storage
           /\ last' = [op |-> "get_plan", name |-> student_name, status |-> r.status,
                       ret |-> r.ret, saved |-> last.saved]
    /\ UNCHANGED <<heap, clock, courses, requirements, env>>

\* the server is started again: PLAN_STORAGE is empty, the files stay
Restart ==
    /\ plans # <<>>
    /\ plans' = <<>>
    /\ last' = [op |-> "restart", name |-> <<>>, status |-> 200, ret |-> NoPlan.plan,
                saved |-> last.saved]
    /\ UNCHANGED <<heap, clock, courses, requirements, env>>

NextPlans ==
    \/ \E n \in StudentNames, s \in StartSemesters : SavePlan(DegreePlan(n, s))
    \/ \E n \in StudentNames : GetPlan(n)
    \/ Restart

SpecPlans == InitPlans /\ [][NextPlans]_vars

----------------------------------------------------------------------------
(* models.py: a second Plan made from a dict or from a file *)

\* the dict json.dump writes and json.load reads: the selections by content
PlanJson(selections, notes, created_at, updated_at) ==
    [selections |-> selections, notes |-> notes,
     created_at |-> isoformat(created_at), updated_at |-> isoformat(updated_at)]

\* Plan.load_from_file: json.load builds a new selections dict, kept at ref;
\* a missing file gives Plan()
load_from_file(files, filepath, ref, now) ==
    IF filepath \in DOMAIN files
    THEN [plan |-> from_dict([files[filepath].data EXCEPT !.selections = ref]),
          selections |-> files[filepath].data.selections]
    ELSE [plan |-> NewPlan(ref, now, now), selections |-> <<>>]

PlanPath == "plan.json"

\* selections a plan file written earlier, or by hand, may hold
PersistedSelections ==
    {<<>>,
     <<[sem |-> "Fall 2025", ids |-> <<"BIBL101", "BIBL201">>]>>,
     <<[sem |-> "Fall 2025", ids |-> <<"BIBL101", "BIBL101">>]>>}

PersistIds == {"BIBL101", "BIBL201"}

\* p = Plan(), q = Plan.from_dict(p.to_dict()), r = Plan.load_from_file(PlanPath)
PersistPlans == {"p", "q", "r"}

\* plan = Plan(), next to a plan file or none
InitPersist ==
    /\ heap = (1 :> <<>>)
    /\ plans = ("p" :> NewPlan(1, 0, 0))
    /\ clock = 0
    /\ courses = <<>>
    /\ requirements = <<>>
    /\ \/ env = [files |-> <<>>, striprtf |-> FALSE]
       \/ \E sel \in PersistedSelections :
            env = [files |-> (PlanPath :> [data |-> PlanJson(sel, "", 0, 0)]),
                   striprtf |-> FALSE]
    /\ last = [op |-> "Plan"]

\* q = Plan.from_dict(p.to_dict())
FromDict(pl, q) ==
    /\ Live = {pl}
    /\ plans' = [n \in Live \cup {q} |-> IF n = q THEN from_dict(to_dict(plans[pl])) ELSE plans[n]]
    /\ last' = [op |-> "from_dict", plan |-> q, of |-> pl]
    /\ UNCHANGED <<heap, clock, courses, requirements, env>>

\* q = Plan.load_from_file(filepath)
LoadFromFile(q, filepath) ==
    /\ Live = {"p"}
    /\ LET ref == Len(heap) + 1
           r == load_from_file(env.files, filepath, ref, clock)
       IN  /\ heap' = Append(heap, r.selections)
           /\ plans' = [n \in Live \cup {q} |-> IF n = q THEN r.plan ELSE plans[n]]
    /\ last' = [op |-> "load_from_file", plan |-> q]
    /\ UNCHANGED <<clock, courses, requirements, env>>

NextPersist ==
    \/ \E pl \in PersistPlans, s \in Semesters, c \in PersistIds : AddCourse(pl, s, c)
    \/ \E pl \in PersistPlans, s \in Semesters, c \in PersistIds : RemoveCourse(pl, s, c)
    \/ FromDict("p", "q")
    \/ LoadFromFile("r", PlanPath)

SpecPersist == InitPersist /\ [][NextPersist]_vars

----------------------------------------------------------------------------
(* What the parser claims speak of *)

DirectoryParsed == last.op = "parse_directory"

ContextParsed == last.op = "parse_context_files"

\* what parse_file gives for a name of the listing
FileResult(fname) == parse_file(env, os_path_join(last.directory, fname))

FileFailed(fname) == IsParsable(fname) /\ FileResult(fname).raised # None

FileSucceeded(fname) == IsParsable(fname) /\ FileResult(fname).raised = None

\* the course lists of the files of a listing that parsed, one after the other
RECURSIVE CoursesOfParsed(_)
CoursesOfParsed(listing) ==
    IF listing = <<>> THEN <<>>
    ELSE (IF FileSucceeded(Head(listing)) THEN FileResult(Head(listing)).courses ELSE <<>>)
         \o CoursesOfParsed(Tail(listing))

\* the names the backend reads, in its order, and the results for them
BackendFiles == SelectSeq(last.listing, IsRtf) \o SelectSeq(last.listing, IsPdf)

BackendResult(fname) == ParseResult(env, os_path_join(last.directory, fname))

BackendSucceeded(fname) == BackendResult(fname).status = "success"

\* the courses the backend files that parsed hold
BackendContributed ==
    UNION {Range(BackendResult(BackendFiles[i]).extracted_courses) :
             i \in {j \in DOMAIN BackendFiles : BackendSucceeded(BackendFiles[j])}}

----------------------------------------------------------------------------
(* C12: a directory-wide parse over any mix of parsable and failing files  *)
(* returns normally; what it returns is what the files that parsed         *)
(* contribute, and is what the same parse returns when the failing files   *)
(* are not there.  parse_directory returns the course lists of the parsed  *)
(* files one after the other; parse_context_files returns courses of the   *)
(* parsed files only, every code they hold being present.                  *)
C12_FailuresIsolated ==
    /\ DirectoryParsed =>
          /\ last.ret.raised = None
          /\ last.ret.courses = CoursesOfParsed(last.listing)
          /\ LET alone == parse_directory(env, last.directory,
                                          SelectSeq(last.listing, FileSucceeded))
             IN  last.ret.courses = alone.courses /\ last.ret.totals = alone.totals
    /\ (ContextParsed /\ last.directory \in Directories) =>
          /\ last.ret.error = None
          /\ Range(last.ret.courses) \subseteq BackendContributed
          /\ {c.code : c \in BackendContributed} = {c.code : c \in Range(last.ret.courses)}
          /\ last.ret.courses =
                parse_context_files(env, last.directory,
                                    SelectSeq(BackendFiles, BackendSucceeded)).courses

\* both parses over a file that fails and a file that gives courses
C12_Witness ==
    \/ /\ DirectoryParsed
       /\ \E i \in DOMAIN last.listing : FileFailed(last.listing[i])
       /\ last.ret.courses # <<>>
    \/ /\ ContextParsed
       /\ \E i \in DOMAIN BackendFiles : ~BackendSucceeded(BackendFiles[i])
       /\ last.ret.courses # <<>>

----------------------------------------------------------------------------
\* a result that carries no courses, no totals and no error
EmptySuccess(ret) == ret.raised = None /\ ret.courses = <<>> /\ ret.totals = <<>>

(* C13: the caller of a parse always receives a successful result or an    *)
(* explicit error marker: a directory parse in which files failed is never *)
(* returned as an empty success, and a backend parse in which files failed *)
(* carries an error result for each of them.                               *)
C13_AsClaimed ==
    /\ (DirectoryParsed /\ \E i \in DOMAIN last.listing : FileFailed(last.listing[i]))
          => ~EmptySuccess(last.ret)
    /\ (ContextParsed /\ last.directory \in Directories) =>
          \A i \in DOMAIN BackendFiles :
              ~BackendSucceeded(BackendFiles[i]) => last.ret.parse_results[i].status = "error"

----------------------------------------------------------------------------
(* A parse_file call, step by step *)

FileParsed == last.op = "parse_file"

CallRows == extract_rows(env, ResolvedPath(last.path))

CallHeader == _find_header_row(CallRows.rows)

CallColumns == _build_col_index(CallRows.rows[CallHeader.idx + 1])

\* the rows were extracted, the header row found, the mandatory columns mapped
Structured ==
    /\ FileParsed
    /\ CallRows.raised = None
    /\ CallHeader.raised = None
    /\ CallColumns.raised = None

Mapped(col) == col \in DOMAIN CallColumns.mapping

\* the rows after the header row
PostHeader == SubSeq(CallRows.rows, CallHeader.idx + 2, Len(CallRows.rows))

\* the cell of a column in a row, "" where the row has none
Cell(row, col) == _get(row, CallColumns.mapping, col)

IsCodeRow(i) == strip(Cell(PostHeader[i], "Course Code")) # <<>>

\* the positions of the rows that have a course code, in row order
CodeRows == SelectSeq([i \in DOMAIN PostHeader |-> i], IsCodeRow)

\* the row the n-th course is made of, and the rows between it and the next course
CourseRow(n) == PostHeader[CodeRows[n]]

Followers(n) ==
    SubSeq(PostHeader, CodeRows[n] + 1,
           IF n < Len(CodeRows) THEN CodeRows[n + 1] - 1 ELSE Len(PostHeader))

\* the first token of a cell
FirstToken(cell) == re_split_space(cell)[1]

IsNumber(token) == float(token).raised = None

----------------------------------------------------------------------------
(* C14: the credits of a course are the first whitespace-delimited token   *)
(* of its Credits cell read as a decimal number, and 0.0 when the cell is  *)
(* absent, empty or the token is no number; a credits cell that cannot be  *)
(* read never aborts the row or the parse of the file.                     *)
CreditsAsClaimed(cell) ==
    IF cell # <<>> /\ IsNumber(FirstToken(cell)) THEN float(FirstToken(cell)).value
    ELSE Float(0, 1)

C14_AsClaimed ==
    Structured =>
        /\ last.ret.raised = None
        /\ Len(last.ret.courses) = Len(CodeRows)
        /\ \A n \in DOMAIN last.ret.courses :
              last.ret.courses[n].credits = CreditsAsClaimed(Cell(CourseRow(n), "Credits"))

----------------------------------------------------------------------------
\* no row has both words
NoHeader == \A i \in DOMAIN CallRows.rows : ~IsHeaderRow(CallRows.rows[i])

\* no cell of the header row stands for the column
Unmapped(col) ==
    LET header_row == CallRows.rows[CallHeader.idx + 1]
    IN  \A i \in DOMAIN header_row : CellField(header_row[i]) # col

RequiredUnmapped == \E col \in {"Course Code", "Course Title", "Credits"} : Unmapped(col)

OptionalUnmapped == \E col \in {"Instructor", "Days/Times", "Description"} : Unmapped(col)

\* what the rows that follow a course add to its description
RECURSIVE Appended(_)
Appended(rows) ==
    IF rows = <<>> THEN <<>>
    ELSE (IF Mapped("Description") /\ CallColumns.mapping["Description"] < Len(Head(rows))
          THEN <<" ">> \o Cell(Head(rows), "Description")
          ELSE <<" ">> \o join(<<" ">>, Head(rows)))
         \o Appended(Tail(rows))

\* the fields of the optional columns that are unmapped are "" in every course
UnmappedFieldsEmpty ==
    \A n \in DOMAIN last.ret.courses :
        /\ Unmapped("Instructor") => last.ret.courses[n].professor = <<>>
        /\ Unmapped("Days/Times") => last.ret.courses[n].schedule = <<>>
        /\ Unmapped("Description") => last.ret.courses[n].description = <<>>

(* C15 as claimed: parse_file fails with the missing-header error and       *)
(* gives no courses when no row has both "course" and "code" or one of      *)
(* Course Code, Course Title, Credits is unmapped in the header row; when   *)
(* only optional columns are unmapped the parse succeeds and the fields of  *)
(* those columns are "" in every course.                                    *)
C15_AsClaimed ==
    (FileParsed /\ CallRows.raised = None) =>
        IF NoHeader \/ RequiredUnmapped
        THEN last.ret.raised = "RuntimeError" /\ last.ret.courses = <<>>
        ELSE last.ret.raised = None /\ UnmappedFieldsEmpty

(* C15: parse_file fails with the missing-header error and gives no courses *)
(* when no row has both "course" and "code" or one of Course Code, Course   *)
(* Title, Credits is unmapped in the header row; when only optional columns *)
(* are unmapped no missing-header error is raised, professor and schedule   *)
(* of an unmapped column are "" in every course returned, and the           *)
(* description of a course without Description column holds only what the   *)
(* rows that follow the course add to it.                                   *)
C15_HeaderErrors ==
    (FileParsed /\ CallRows.raised = None) =>
        IF NoHeader \/ RequiredUnmapped
        THEN last.ret.raised = "RuntimeError" /\ last.ret.courses = <<>>
        ELSE /\ last.ret.raised # "RuntimeError"
             /\ \A n \in DOMAIN last.ret.courses :
                   /\ Unmapped("Instructor") => last.ret.courses[n].professor = <<>>
                   /\ Unmapped("Days/Times") => last.ret.courses[n].schedule = <<>>
                   /\ Unmapped("Description") =>
                         last.ret.courses[n].description = Appended(Followers(n))

\* a parse with optional columns unmapped: a course without description and
\* one whose description comes from the row after it
C15_Witness ==
    /\ Structured
    /\ OptionalUnmapped
    /\ Unmapped("Description")
    /\ \E n \in DOMAIN last.ret.courses : last.ret.courses[n].description = <<>>
    /\ \E n \in DOMAIN last.ret.courses : last.ret.courses[n].description # <<>>

----------------------------------------------------------------------------
RowsExtracted == last.op = "extract_rows"

\* the data directory joined with what follows the last slash of the path given
InDataDir(path) == DATA_DIR \o <<"/">> \o os_path_basename(path)

\* the file of the call is there
Present == InDataDir(last.path) \in DOMAIN env.files \cup Directories

\* the last four characters of the resolved path, lowercased
Extension ==
    LET p == InDataDir(last.path)
    IN  lower(SubSeq(p, Max(1, Len(p) - 3), Len(p)))

Supported == Extension \in {<<".", "p", "d", "f">>, <<".", "r", "t", "f">>}

(* C16: extract_rows reports not-found exactly when the resolved file does  *)
(* not exist, and unsupported-format exactly when the file exists and its   *)
(* extension, letter case ignored, is neither .pdf nor .rtf; in both cases  *)
(* it returns no rows.                                                      *)
C16_NotFoundUnsupported ==
    RowsExtracted =>
        /\ last.ret.raised = "FileNotFoundError" <=> ~Present
        /\ last.ret.raised = "ValueError" <=> (Present /\ ~Supported)
        /\ last.ret.raised \in {"FileNotFoundError", "ValueError"} =>
              last.ret.rows = <<>> /\ last.ret.opened = {}

\* a file that is there with an extension in capitals is read, next to it a
\* text file is refused
C16_Witness ==
    /\ RowsExtracted
    /\ last.ret.raised = "ValueError"
    /\ last.path = <<"n", "o", "t", "e", "s", ".", "t", "x", "t">>
    /\ <<".", "/", "_", "c", "o", "n", "t", "e", "x", "t", "/", "b", ".", "P", "D", "F">> \in DOMAIN env.files

----------------------------------------------------------------------------
(* C17: whatever path extract_rows or parse_file is given, the only file    *)
(* it opens is the data directory joined with the basename of the path: no  *)
(* file outside the data directory is read.                                 *)
C17_OnlyDataDir ==
    (RowsExtracted \/ FileParsed) =>
        /\ last.ret.opened \subseteq {InDataDir(last.path)}
        /\ \A p \in last.ret.opened :
              /\ SubSeq(p, 1, Len(DATA_DIR) + 1) = DATA_DIR \o <<"/">>
              /\ \A i \in (Len(DATA_DIR) + 2)..Len(p) : p[i] # "/"

\* a call with the path of a file outside the data directory that opens the
\* file of that name inside it
C17_Witness ==
    /\ FileParsed
    /\ last.path = <<"/", "e", "t", "c", "/", "a", ".", "p", "d", "f">>
    /\ last.path \in DOMAIN env.files
    /\ last.ret.opened = {<<".", "/", "_", "c", "o", "n", "t", "e", "x", "t", "/", "a", ".", "p", "d", "f">>}

----------------------------------------------------------------------------
Categories == UNION {Range(REQ_MAP[i].fields) : i \in DOMAIN REQ_MAP}

\* the sum of the credits of the courses tagged k
RECURSIVE CreditsTagged(_, _)
CreditsTagged(cs, k) ==
    IF cs = <<>> THEN Float(0, 1)
    ELSE AddFloat(IF k \in Range(Head(cs).fields) THEN Head(cs).credits ELSE Float(0, 1),
                  CreditsTagged(Tail(cs), k))

\* the first token of the code is a prefix of the lookup
KnownPrefix(code) == \E i \in DOMAIN REQ_MAP : REQ_MAP[i].prefix = FirstToken(code)

(* C18: in the result of parse_file and of parse_directory, totals[k] is    *)
(* the sum of the credits of the returned courses whose fields contain k,   *)
(* and k is a key of totals only if a returned course is tagged k; a course *)
(* whose prefix is not in the lookup has empty fields and adds to no total; *)
(* the courses of parse_directory are the per-file course lists one after   *)
(* the other, courses of equal code all kept.                               *)
C18_Totals ==
    ((FileParsed \/ DirectoryParsed) /\ last.ret.raised = None) =>
        /\ DOMAIN last.ret.totals \subseteq Categories
        /\ \A k \in Categories :
              /\ k \in DOMAIN last.ret.totals <=>
                    \E n \in DOMAIN last.ret.courses : k \in Range(last.ret.courses[n].fields)
              /\ k \in DOMAIN last.ret.totals =>
                    last.ret.totals[k] = CreditsTagged(last.ret.courses, k)
        /\ \A n \in DOMAIN last.ret.courses :
              ~KnownPrefix(last.ret.courses[n].code) => last.ret.courses[n].fields = <<>>
        /\ DirectoryParsed => last.ret.courses = CoursesOfParsed(last.listing)

\* a directory parse of two files that give the same course code, with a
\* total that both files add to and a course that adds to none
C18_Witness ==
    /\ DirectoryParsed
    /\ Len(last.listing) = 2
    /\ \A i \in DOMAIN last.listing : FileSucceeded(last.listing[i])
    /\ \E m, n \in DOMAIN last.ret.courses :
          m # n /\ last.ret.courses[m].code = last.ret.courses[n].code
    /\ \E k \in DOMAIN last.ret.totals :
          \A i \in DOMAIN last.listing :
              k \in DOMAIN FileResult(last.listing[i]).totals
              /\ FileResult(last.listing[i]).totals[k].num > 0
    /\ \E n \in DOMAIN last.ret.courses : last.ret.courses[n].fields = <<>>

----------------------------------------------------------------------------
\* what the rows that follow a course add to its description if a row too
\* short to have a Description cell adds that cell as ""
RECURSIVE AppendedCells(_)
AppendedCells(rows) ==
    IF rows = <<>> THEN <<>>
    ELSE (IF Mapped("Description")
          THEN <<" ">> \o Cell(Head(rows), "Description")
          ELSE <<" ">> \o join(<<" ">>, Head(rows)))
         \o AppendedCells(Tail(rows))

\* the n-th course has the fields of its own row, description aside
OwnFields(n) ==
    LET c == last.ret.courses[n]
        row == CourseRow(n)
    IN  /\ c.code = strip(Cell(row, "Course Code"))
        /\ c.title = strip(Cell(row, "Course Title"))
        /\ c.credits = CreditsAsClaimed(Cell(row, "Credits"))
        /\ c.professor = strip(Cell(row, "Instructor"))
        /\ c.schedule = strip(Cell(row, "Days/Times"))

(* C19 as claimed: a row after the header whose Course Code cell is empty   *)
(* or missing never makes a course; if a course precedes it, its            *)
(* Description cell (the whole row joined by spaces when there is no        *)
(* Description column) is appended to that course's description after one   *)
(* space, the other fields and the earlier courses staying as they were.    *)
C19_AsClaimed ==
    (Structured /\ last.ret.raised = None) =>
        /\ Len(last.ret.courses) = Len(CodeRows)
        /\ \A n \in DOMAIN last.ret.courses :
              /\ OwnFields(n)
              /\ last.ret.courses[n].description =
                    strip(Cell(CourseRow(n), "Description")) \o AppendedCells(Followers(n))

(* C19: a row after the header whose Course Code cell is empty or missing   *)
(* never makes a course; if a course precedes it, its Description cell (the *)
(* whole row joined by spaces when there is no Description column or the    *)
(* row is too short to have that cell) is appended to that course's         *)
(* description after one space, the other fields and the earlier courses    *)
(* staying as they were.                                                    *)
C19_Continuation ==
    (Structured /\ last.ret.raised = None) =>
        /\ Len(last.ret.courses) = Len(CodeRows)
        /\ \A n \in DOMAIN last.ret.courses :
              /\ OwnFields(n)
              /\ last.ret.courses[n].description =
                    strip(Cell(CourseRow(n), "Description")) \o Appended(Followers(n))

\* the course with credits cell "3" and description "intro text" followed by
\* a row whose Description cell is "continued...", and a later course
\* followed by a row too short to have a Description cell
C19_Witness ==
    /\ Structured
    /\ Mapped("Description")
    /\ Len(last.ret.courses) >= 2
    /\ Cell(CourseRow(1), "Credits") = <<"3">>
    /\ Cell(CourseRow(1), "Description") = <<"i", "n", "t", "r", "o", " ", "t", "e", "x", "t">>
    /\ Followers(1) # <<>>
    /\ Cell(Followers(1)[1], "Description") = <<"c", "o", "n", "t", "i", "n", "u", "e", "d", ".", ".", ".">>
    /\ last.ret.courses[1].credits = Float(3, 1)
    /\ last.ret.courses[1].description = <<"i", "n", "t", "r", "o", " ", "t", "e", "x", "t", " ", "c", "o", "n", "t", "i", "n", "u", "e", "d", ".", ".", ".">>
    /\ \E row \in Range(Followers(2)) : Len(row) <= CallColumns.mapping["Description"]

----------------------------------------------------------------------------
(* C20: the rows of the CSV export *)

Exported == last.op = "export_plan_to_csv"

\* the (semester, course id) pairs of a plan, in plan order
RECURSIVE PlanPairs(_)
PlanPairs(sel) ==
    IF sel = <<>> THEN <<>>
    ELSE [k \in DOMAIN Head(sel).ids |-> <<Head(sel).sem, Head(sel).ids[k]>>]
         \o PlanPairs(Tail(sel))

\* the pairs whose course id the catalog lists
CataloguedPairs(sel) ==
    LET Listed(p) == InCatalog(p[2]) IN SelectSeq(PlanPairs(sel), Listed)

\* the row carries the semester of the pair and the fields of the catalog's
\* course, its requirement ids joined by ", " in some order
RowOf(row, pair) ==
    LET course == CatalogCourse(pair[2])
    IN  /\ row.Semester = pair[1]
        /\ row.CourseCode = course.code
        /\ row.CourseTitle = course.title
        /\ row.Faculty = course.faculty
        /\ row.Credits = course.credits
        /\ row.Days = course.days
        /\ row.Time = course.time
        /\ row.DeliveryMode = course.delivery_mode
        /\ row.Description = course.description
        /\ \E o \in Orderings(course.satisfies) :
              row.SatisfiesRequirements = join(<<",", " ">>, o)

\* C20 as stated: export_plan_to_csv produces exactly one row per (semester,
\* course id) pair in the plan, in plan order, each row carrying that
\* semester and the course's catalog fields
C20_AsClaimed ==
    Exported =>
        LET pairs == PlanPairs(SelectionsOf(last.plan))
        IN  /\ Len(last.ret) = Len(pairs)
            /\ \A k \in DOMAIN pairs :
                  InCatalog(pairs[k][2]) => RowOf(last.ret[k], pairs[k])

\* C20: export_plan_to_csv produces exactly one row per (semester, course
\* id) pair of the plan whose id the course list holds, in plan order, each
\* row carrying that semester and the fields of the last course of that id
\* in the list; a pair whose id the list does not hold produces no row
C20_CataloguedRows ==
    Exported =>
        LET pairs == CataloguedPairs(SelectionsOf(last.plan))
        IN  /\ Len(last.ret) = Len(pairs)
            /\ \A k \in DOMAIN pairs : RowOf(last.ret[k], pairs[k])
            /\ env.files[last.filepath].frame = last.ret

\* an export of a plan of two semesters that selects a course listed twice,
\* a course with two requirement ids and a course the catalog lacks
C20_Witness ==
    /\ Exported
    /\ Len(courses) = 3
    /\ Len(SelectionsOf(last.plan)) = 2
    /\ Len(PlanPairs(SelectionsOf(last.plan))) = 4
    /\ Len(last.ret) = 3
    /\ \E k \in DOMAIN last.ret : last.ret[k].CourseTitle = Bible101Online.title
    /\ \E k \in DOMAIN last.ret :
          last.ret[k].SatisfiesRequirements = <<"t", "h", "e", "o", "l", "o", "g", "y", ",", " ", "b", "i", "b", "l", "e">>

----------------------------------------------------------------------------
(* C22: the column mapping built from the header row *)

\* the header row of the call
HeaderCells == CallRows.rows[CallHeader.idx + 1]

HeaderFound == FileParsed /\ CallRows.raised = None /\ CallHeader.raised = None

\* the keywords a header cell contains, as positions in the keyword table
KeywordsIn(cell) ==
    {k \in DOMAIN _HEADER_KEYWORDS : contains(_HEADER_KEYWORDS[k].key, lower(strip(cell)))}

\* the field of the first keyword, in table order, that the cell contains
FirstKeywordField(cell) ==
    _HEADER_KEYWORDS[CHOOSE k \in KeywordsIn(cell) : \A j \in KeywordsIn(cell) : k <= j].canonical

\* the positions, counted from 0, of the header cells that stand for a field
CellsOf(field) ==
    {i - 1 : i \in {j \in DOMAIN HeaderCells :
                       KeywordsIn(HeaderCells[j]) # {} /\ FirstKeywordField(HeaderCells[j]) = field}}

Fields == {_HEADER_KEYWORDS[k].canonical : k \in DOMAIN _HEADER_KEYWORDS}

Min(S) == CHOOSE x \in S : \A y \in S : x <= y

\* C22 as claimed: in the column mapping built from the header row a field
\* that two or more header cells stand for is mapped to the position of the
\* first such cell, and within one cell the first matching keyword in
\* keyword-table order decides the field
C22_AsClaimed ==
    HeaderFound =>
        /\ DOMAIN CallColumns.mapping = {f \in Fields : CellsOf(f) # {}}
        /\ \A f \in DOMAIN CallColumns.mapping : CallColumns.mapping[f] = Min(CellsOf(f))

----------------------------------------------------------------------------
(* C23: the header row *)

RowsRead == FileParsed /\ CallRows.raised = None

\* the cells of the row, lowercased and joined, contain both words
HasBothWords(row) ==
    LET text == lower(join(<<" ">>, row))
    IN  contains(<<"c", "o", "u", "r", "s", "e">>, text) /\ contains(<<"c", "o", "d", "e">>, text)

\* the positions of the rows that have both words
WordRows == {i \in DOMAIN CallRows.rows : HasBothWords(CallRows.rows[i])}

\* the codes of the rows after position h that have one, in row order
RECURSIVE CodesAfter(_, _, _)
CodesAfter(rows, h, col_index) ==
    IF h >= Len(rows) THEN <<>>
    ELSE LET code == strip(_get(rows[h + 1], col_index, "Course Code"))
         IN  (IF code # <<>> THEN <<code>> ELSE <<>>) \o CodesAfter(rows, h + 1, col_index)

CodesOf(cs) == [n \in DOMAIN cs |-> cs[n].code]

\* C23: the header row is the first row, in extraction order, whose cells
\* joined and lowercased contain both "course" and "code": without such a
\* row the parse fails, the columns are those of that row, rows before it
\* never produce courses and only the rows after it are assembled
C23_FirstHeaderRow ==
    RowsRead =>
        IF WordRows = {} THEN last.ret.raised = "RuntimeError"
        ELSE LET h == Min(WordRows)
                 columns == _build_col_index(CallRows.rows[h])
             IN  IF columns.raised # None THEN last.ret.raised = "RuntimeError"
                 ELSE /\ last.ret.raised \in {None, "ValueError"}
                      /\ last.ret.raised = None =>
                            CodesOf(last.ret.courses) = CodesAfter(CallRows.rows, h, columns.mapping)

\* a parse of rows where a row with a code stands before the header row and
\* a row with both words after it: the first gives no course, the second does
C23_Witness ==
    /\ RowsRead
    /\ last.ret.raised = None
    /\ Cardinality(WordRows) = 2
    /\ Min(WordRows) = 2
    /\ CallRows.rows[1][1] = <<"B", "X", " ", "0", "0", "1">>
    /\ \A n \in DOMAIN last.ret.courses : last.ret.courses[n].code # <<"B", "X", " ", "0", "0", "1">>
    /\ \E n \in DOMAIN last.ret.courses : last.ret.courses[n].code = <<"C", "o", "d", "e", " ", "o", "f", " ", "c", "o", "u", "r", "s", "e">>
    /\ Len(last.ret.courses) = 6

----------------------------------------------------------------------------
(* C24: the rows of a PDF *)

\* extract_rows was called on a PDF that exists
PdfExtracted ==
    /\ last.op = "extract_rows"
    /\ ResolvedPath(last.path) \in DOMAIN env.files
    /\ HasExtension(ResolvedPath(last.path), <<".", "p", "d", "f">>)

PdfFile == env.files[ResolvedPath(last.path)]

\* the rows of all tables of all pages, in page order
RECURSIVE RowsOfTables(_)
RowsOfTables(tables) ==
    IF tables = <<>> THEN <<>> ELSE Head(tables) \o RowsOfTables(Tail(tables))

RECURSIVE RowsOfPages(_)
RowsOfPages(pages) ==
    IF pages = <<>> THEN <<>>
    ELSE RowsOfTables(Head(pages).tables) \o RowsOfPages(Tail(pages))

HasNonBlankCell(row) ==
    \E i \in DOMAIN row : row[i] # NoneText /\ \E k \in DOMAIN row[i] : ~IsSpace(row[i][k])

Trimmed(row) == [i \in DOMAIN row |-> IF row[i] = NoneText THEN <<>> ELSE strip(row[i])]

\* the table rows the claim describes
TableRows ==
    LET kept == SelectSeq(RowsOfPages(PdfFile.pages), HasNonBlankCell)
    IN  [i \in DOMAIN kept |-> Trimmed(kept[i])]

TextRows == _fallback_rows_from_text(PdfText(PdfFile))

----------------------------------------------------------------------------
(* C25: one course per row that has a code *)

HasCode(i) == Cell(PostHeader[i], "Course Code") # <<>>

\* the positions of the rows after the header whose Course Code cell is not empty
RowsWithCode == SelectSeq([i \in DOMAIN PostHeader |-> i], HasCode)

\* the rows between the n-th row with a code and the next one
RowsUnder(n) ==
    SubSeq(PostHeader, RowsWithCode[n] + 1,
           IF n < Len(RowsWithCode) THEN RowsWithCode[n + 1] - 1 ELSE Len(PostHeader))

\* C25: the assembled course sequence holds exactly one record per row after
\* the header whose Course Code cell (at its mapped position) is non-empty,
\* in row order, records of equal code all kept; rows with an empty code
\* cell before the first course add nothing to any record
C25_OneRecordPerCodeRow ==
    (Structured /\ last.ret.raised = None) =>
        /\ Len(last.ret.courses) = Len(RowsWithCode)
        /\ \A n \in DOMAIN last.ret.courses :
              LET row == PostHeader[RowsWithCode[n]]
                  c == last.ret.courses[n]
              IN  /\ c.code = strip(Cell(row, "Course Code"))
                  /\ c.title = strip(Cell(row, "Course Title"))
                  /\ c.description = strip(Cell(row, "Description")) \o Appended(RowsUnder(n))

\* a parse where a row without code comes before the first course and two
\* rows carry the same code: both are courses, the first row leaves no trace
C25_Witness ==
    /\ Structured
    /\ last.ret.raised = None
    /\ ~HasCode(1)
    /\ PostHeader[1][2] = <<"o", "r", "p", "h", "a", "n">>
    /\ HasCode(2)
    /\ last.ret.courses[1].description = <<>>
    /\ \E n, m \in DOMAIN last.ret.courses :
          /\ n < m
          /\ last.ret.courses[n].code = last.ret.courses[m].code
          /\ last.ret.courses[n].title # last.ret.courses[m].title

----------------------------------------------------------------------------
(* C26: the key of the requirement map *)

IsLetter(c) == c \in Range(UpperCase) \cup Range(LowerCase)

\* the leading alphabetic run of a code
RECURSIVE AlphabeticRun(_)
AlphabeticRun(code) ==
    IF code = <<>> \/ ~IsLetter(Head(code)) THEN <<>>
    ELSE <<Head(code)>> \o AlphabeticRun(Tail(code))

\* C26 as claimed: the fields of an assembled course are those the
\* requirement map gives for the leading alphabetic run of its code ("BIBL"
\* for "BIBL 101", "SW" for "SW501"), with or without a space before the
\* number
C26_AsClaimed ==
    (FileParsed /\ last.ret.raised = None) =>
        \A n \in DOMAIN last.ret.courses :
            last.ret.courses[n].fields = REQ_MAP_get(AlphabeticRun(last.ret.courses[n].code))

----------------------------------------------------------------------------
(* C30: rows of the text fallback *)

\* the rows of the call come from the text fallback: an RTF, or a PDF whose
\* tables give no row
FromFallback ==
    /\ Structured
    /\ \/ HasExtension(ResolvedPath(last.path), <<".", "r", "t", "f">>)
       \/ /\ HasExtension(ResolvedPath(last.path), <<".", "p", "d", "f">>)
          /\ _table_rows_from_pdf(env.files[ResolvedPath(last.path)]) = <<>>

CodeFirst == CallColumns.mapping["Course Code"] = 0

\* C30: when the rows come from the whitespace-splitting text fallback and
\* Course Code is mapped to column 0, no row after the header is treated as
\* a continuation: every such row has a code and starts a course of its
\* own, and no description holds text of a later row
C30_NoContinuation ==
    (FromFallback /\ CodeFirst) =>
        /\ \A i \in DOMAIN PostHeader : PostHeader[i] # <<>> /\ strip(PostHeader[i][1]) # <<>>
        /\ last.ret.raised \in {None, "ValueError"}
        /\ last.ret.raised = None =>
              /\ Len(last.ret.courses) = Len(PostHeader)
              /\ \A n \in DOMAIN last.ret.courses :
                    /\ last.ret.courses[n].code = PostHeader[n][1]
                    /\ last.ret.courses[n].description = strip(Cell(PostHeader[n], "Description"))

\* an RTF with a wrapped line under a course: the line is a course of its own
C30_Witness ==
    /\ FromFallback
    /\ CodeFirst
    /\ HasExtension(ResolvedPath(last.path), <<".", "r", "t", "f">>)
    /\ last.ret.raised = None
    /\ Len(last.ret.courses) = 2
    /\ last.ret.courses[1].code = <<"H", "B", " ", "1", "0", "0">>
    /\ last.ret.courses[1].description = <<>>
    /\ last.ret.courses[2].code = <<"w", "r", "a", "p", "p", "e", "d">>
    /\ last.ret.courses[2].title = <<"l", "i", "n", "e">>

----------------------------------------------------------------------------
(* C21: the listings when no catalog was parsed *)

\* no catalog has been parsed: PARSED_DATA holds neither courses nor requirements
NoCatalog == courses = <<>> /\ requirements = <<>>

\* C21 as claimed: when no catalog has been parsed (the context directory
\* absent, or a parse that produced nothing) the course listing and the
\* requirement listing both answer with the built-in sample data and are
\* not empty
C21_AsClaimed ==
    /\ (NoCatalog /\ last.op = "get_courses") => last.ret = SAMPLE_COURSES /\ last.ret # <<>>
    /\ (NoCatalog /\ last.op = "get_requirements") =>
          last.ret = SAMPLE_REQUIREMENTS /\ last.ret # <<>>

----------------------------------------------------------------------------
(* C28: the plan store answers by student name *)

\* C28 as claimed: get_plan(name) returns the plan most recently saved under
\* exactly that student name, whose student_name is name, and reports
\* not-found when no plan was ever saved under that name
C28_AsClaimed ==
    last.op = "get_plan" =>
        IF last.name \in DOMAIN last.saved
        THEN /\ last.status = 200
             /\ last.ret = last.saved[last.name]
             /\ last.ret.student_name = last.name
        ELSE last.status = 404

----------------------------------------------------------------------------
(* C27: a plan made by from_dict(p.to_dict()) and p *)

\* C27 as claimed: with q = Plan.from_dict(p.to_dict()), an add_course or
\* remove_course on q leaves p.selections as it was, and one on p leaves
\* q.selections as it was
C27_AsClaimed ==
    [][\A a, b \in {"p", "q"} :
          (/\ a # b
           /\ {"p", "q"} \subseteq Live
           /\ last'.op \in {"add_course", "remove_course"}
           /\ last'.plan = a)
          => SelectionsOf(b)' = SelectionsOf(b)]_vars

----------------------------------------------------------------------------
(* C29: remove_course and the list it leaves *)

\* C29 as claimed: after remove_course(semester, course_id) on any plan, one
\* built by from_dict or load_from_file included, course_id does not occur
\* in selections[semester]
C29_AsClaimed ==
    last.op = "remove_course" =>
        LET sel == SelectionsOf(last.plan)
        IN  HasKey(sel, last.semester) => last.course_id \notin Range(GetItem(sel, last.semester))

============================================================================
